---- MODULE Spec2Model ----
(***************************************************************************)
(* Model of the AI documentation reviewer (qiancai/ai-doc-reviewer).       *)
(*                                                                         *)
(* The repository holds several variants of the same engine:               *)
(*   "legacy"    src/src/main.ts, lines 1-450                              *)
(*   "heuristic" src/src/main.ts, lines 1109-1629                          *)
(*   "current"   src/unnamed/part_001                                      *)
(* and src/unnamed/part_000 holds a further createComment, "structural".   *)
(* The variant is fixed for a run and the model follows the code of the    *)
(* chosen variant.                                                         *)
(*                                                                         *)
(* Text is modelled as a sequence of atoms.  An atom is one character      *)
(* (a brace, a quote, a backtick, a space) or a run of letters or digits   *)
(* that no regular expression of the program splits (reviews, json, 42).   *)
(***************************************************************************)
EXTENDS Integers, Sequences, FiniteSets, TLC

VARIABLES
    variant,        \* which variant of the engine runs
    xFn,            \* extractor under study: the provider function
    xWrap,          \* how the response text was built around the payload
    xPayload,       \* the JSON payload inside the response text
    xContent,       \* the response text handed to the extractor
    xpc,            \* "ready" before extraction, "done" after
    xResult,        \* what the provider function returned
    workTree,       \* the checked-out files: path -> state of the file
    cFile,          \* createComment under study: its file argument
    cChunk,         \* its chunk argument
    cItems,         \* its aiResponses argument
    cpc,            \* "ready" before the call, "done" after
    cOut,           \* what createComment returned, or that it threw
    API_PROVIDER,       \* the input API_PROVIDER, "openai" when not given
    OPENAI_API_KEY,     \* whether the input OPENAI_API_KEY is set
    DEEPSEEK_API_KEY,   \* whether the input DEEPSEEK_API_KEY is set
    filteredDiff,       \* the files main hands to analyzeCode
    pc,                 \* where main is
    k,                  \* analyzeCode: index into Work of the chunk in hand
    chunkCalls,         \* the provider function calls made for that chunk
    aiResult,           \* what getAIResponse gave for the last finished chunk
    comments,           \* analyzeCode: the comments collected so far
    visited,            \* number of chunks getAIResponse was called for
    allFailed,          \* getAIResponse gave null or threw for all of them
    analysisThrew,      \* an exception left analyzeCode
    isCommentTrigger,   \* the run was started by a comment
    githubRequests,     \* number of requests sent to GitHub
    providerRequests,   \* number of requests sent to a provider
    failed,             \* core.setFailed was called
    exited,             \* process.exit(1) was called
    success,            \* the success message was reported
    hadCriticalErrors,  \* the flag of that name in main
    inFlight,           \* number of provider requests sent and not answered
    noticePosted        \* a result comment was posted on the pull request

xvars == <<xFn, xWrap, xPayload, xContent, xpc, xResult>>
cvars == <<cFile, cChunk, cItems, cpc, cOut>>
config == <<API_PROVIDER, OPENAI_API_KEY, DEEPSEEK_API_KEY>>
pvars == <<config, filteredDiff, pc, k, chunkCalls, aiResult, comments,
           visited, allFailed, analysisThrew, isCommentTrigger,
           githubRequests, providerRequests, failed, exited, success,
           hadCriticalErrors, inFlight, noticePosted>>

Variants == {"legacy", "heuristic", "current"}
\* createComment has a fourth variant, in src/unnamed/part_000.
CommentVariants == Variants \cup {"structural"}

(***************************************************************************)
(* Bounds.                                                                 *)
(***************************************************************************)
MaxItems == 2       \* longest reviews array in a generated payload
MaxFiles == 2       \* most files in a diff
MaxChunks == 3      \* most chunks in a diff, over all its files

(***************************************************************************)
(* JavaScript values.                                                      *)
(***************************************************************************)
Undefined == [k |-> "undefined"]
Null == [k |-> "null"]
Str(s) == [k |-> "string", s |-> s]
Num(n) == [k |-> "number", n |-> n]
Arr(a) == [k |-> "array", a |-> a]
Obj(o) == [k |-> "object", o |-> o]
NaN == [k |-> "number", nan |-> TRUE]

\* JavaScript truthiness.
Truthy(v) ==
    CASE v.k = "undefined" -> FALSE
      [] v.k = "null" -> FALSE
      [] v.k = "string" -> v.s # <<>>
      [] v.k = "number" -> IF "nan" \in DOMAIN v THEN FALSE ELSE v.n # 0
      [] OTHER -> TRUE

IsArray(v) == v.k = "array"

\* Property read v[key] on a value that is neither null nor undefined:
\* the last member with that key of an object, undefined otherwise.
Get(v, key) ==
    IF v.k = "object" /\ \E i \in 1..Len(v.o) : v.o[i].key = key
    THEN LET i == CHOOSE m \in 1..Len(v.o) :
                      /\ v.o[m].key = key
                      /\ \A n \in (m+1)..Len(v.o) : v.o[n].key # key
         IN v.o[i].val
    ELSE Undefined

\* Reading a property of null or undefined raises a TypeError.
Nullish(v) == v.k \in {"undefined", "null"}

(***************************************************************************)
(* Text helpers.                                                           *)
(***************************************************************************)
DQ == "\""
SQ == "'"
BT == "BACKTICK"    \* the backtick character, which a TLA+ string cannot hold
SP == " "
NL == "\n"

IsWs(a) == a \in {SP, NL}

NumTable ==
    ("0" :> 0) @@ ("1" :> 1) @@ ("2" :> 2) @@ ("3" :> 3) @@ ("4" :> 4) @@
    ("5" :> 5) @@ ("6" :> 6) @@ ("7" :> 7) @@ ("8" :> 8) @@ ("9" :> 9)

\* First position at or after i that does not hold whitespace.
SkipWs(t, i) ==
    CHOOSE j \in i..(Len(t)+1) :
        /\ (j = Len(t) + 1 \/ ~IsWs(t[j]))
        /\ \A m \in i..(j-1) : IsWs(t[m])

\* String.prototype.trim
TrimStart(t) == SubSeq(t, SkipWs(t, 1), Len(t))
TrimEnd(t) ==
    LET e == CHOOSE j \in 0..Len(t) :
                 /\ (j = 0 \/ ~IsWs(t[j]))
                 /\ \A m \in (j+1)..Len(t) : IsWs(t[m])
    IN SubSeq(t, 1, e)
Trim(t) == TrimEnd(TrimStart(t))

\* String.prototype.replace of every single quote by a double quote
ReplaceQuotes(t) == [i \in 1..Len(t) |-> IF t[i] = SQ THEN DQ ELSE t[i]]

RECURSIVE Join(_, _)
Join(parts, sep) ==
    IF parts = <<>> THEN <<>>
    ELSE IF Len(parts) = 1 THEN parts[1]
    ELSE parts[1] \o sep \o Join(Tail(parts), sep)

(***************************************************************************)
(* JSON.parse: a recursive-descent parser over atoms.                      *)
(***************************************************************************)
ParseFail == [ok |-> FALSE, val |-> Undefined, pos |-> 0]
ParseOk(v, p) == [ok |-> TRUE, val |-> v, pos |-> p]

Unescape(a) == IF a = "\\\"" THEN DQ ELSE IF a = "\\n" THEN NL ELSE a

\* A string literal that opens at position j.
ParseString(t, j) ==
    IF \E q \in (j+1)..Len(t) : t[q] = DQ
    THEN LET q == CHOOSE q \in (j+1)..Len(t) :
                      t[q] = DQ /\ \A m \in (j+1)..(q-1) : t[m] # DQ
         IN IF \E m \in (j+1)..(q-1) : t[m] = NL
            THEN ParseFail
            ELSE ParseOk(Str([m \in 1..(q-j-1) |-> Unescape(t[j+m])]), q + 1)
    ELSE ParseFail

RECURSIVE ParseValue(_, _), ParseElems(_, _, _), ParseMembers(_, _, _)
ParseValue(t, i) ==
    LET j == SkipWs(t, i) IN
    IF j > Len(t) THEN ParseFail
    ELSE CASE t[j] = "{" ->
                LET j2 == SkipWs(t, j + 1) IN
                IF j2 <= Len(t) /\ t[j2] = "}"
                THEN ParseOk(Obj(<<>>), j2 + 1)
                ELSE ParseMembers(t, j2, <<>>)
           [] t[j] = "[" ->
                LET j2 == SkipWs(t, j + 1) IN
                IF j2 <= Len(t) /\ t[j2] = "]"
                THEN ParseOk(Arr(<<>>), j2 + 1)
                ELSE ParseElems(t, j2, <<>>)
           [] t[j] = DQ -> ParseString(t, j)
           [] t[j] \in DOMAIN NumTable -> ParseOk(Num(NumTable[t[j]]), j + 1)
           [] t[j] = "null" -> ParseOk(Null, j + 1)
           [] OTHER -> ParseFail

ParseElems(t, i, acc) ==
    LET v == ParseValue(t, i) IN
    IF ~v.ok THEN ParseFail
    ELSE LET j == SkipWs(t, v.pos) IN
         IF j > Len(t) THEN ParseFail
         ELSE IF t[j] = "," THEN ParseElems(t, j + 1, Append(acc, v.val))
         ELSE IF t[j] = "]" THEN ParseOk(Arr(Append(acc, v.val)), j + 1)
         ELSE ParseFail

ParseMembers(t, i, acc) ==
    LET j == SkipWs(t, i) IN
    IF j > Len(t) \/ t[j] # DQ THEN ParseFail
    ELSE LET key == ParseString(t, j) IN
         IF ~key.ok THEN ParseFail
         ELSE LET c == SkipWs(t, key.pos) IN
              IF c > Len(t) \/ t[c] # ":" THEN ParseFail
              ELSE LET v == ParseValue(t, c + 1) IN
                   IF ~v.ok THEN ParseFail
                   ELSE LET e == SkipWs(t, v.pos)
                            m == Append(acc, [key |-> key.val.s, val |-> v.val])
                        IN IF e > Len(t) THEN ParseFail
                           ELSE IF t[e] = "," THEN ParseMembers(t, e + 1, m)
                           ELSE IF t[e] = "}" THEN ParseOk(Obj(m), e + 1)
                           ELSE ParseFail

\* ok = FALSE stands for the SyntaxError JSON.parse throws.
JSONparse(t) ==
    LET r == ParseValue(t, 1) IN
    IF r.ok /\ SkipWs(t, r.pos) > Len(t)
    THEN [ok |-> TRUE, val |-> r.val]
    ELSE [ok |-> FALSE, val |-> Undefined]

(***************************************************************************)
(* The regular expressions of the extractors.  Each returns whether the    *)
(* leftmost match exists and the text it yields.                           *)
(***************************************************************************)
Min(S) == CHOOSE x \in S : \A y \in S : x <= y

NoMatch == [found |-> FALSE, cap |-> <<>>]

FenceAt(t, i) == i + 2 <= Len(t) /\ t[i] = BT /\ t[i+1] = BT /\ t[i+2] = BT

\* Three backticks, an optional json tag, whitespace, then the shortest
\* brace-delimited run that is followed by whitespace and three backticks;
\* the capture is the brace-delimited run.
CodeBlockRegex(t) ==
    LET Open(i) == SkipWs(t, IF i + 3 <= Len(t) /\ t[i+3] = "json"
                             THEN i + 4 ELSE i + 3)
        Ends(i) == {e \in (Open(i)+1)..Len(t) :
                        t[e] = "}" /\ FenceAt(t, SkipWs(t, e + 1))}
        Ok(i) == /\ FenceAt(t, i)
                 /\ Open(i) <= Len(t)
                 /\ t[Open(i)] = "{"
                 /\ Ends(i) # {}
        Starts == {i \in 1..Len(t) : Ok(i)}
    IN IF Starts = {} THEN NoMatch
       ELSE LET i == Min(Starts)
            IN [found |-> TRUE, cap |-> SubSeq(t, Open(i), Min(Ends(i)))]

\* The first opening brace up to the first closing brace after it.
BraceRegex(t) ==
    LET Ends(i) == {e \in (i+1)..Len(t) : t[e] = "}"}
        Starts == {i \in 1..Len(t) : t[i] = "{" /\ Ends(i) # {}}
    IN IF Starts = {} THEN NoMatch
       ELSE LET i == Min(Starts)
            IN [found |-> TRUE, cap |-> SubSeq(t, i, Min(Ends(i)))]

\* An opening brace directly followed by the quoted key reviews (double or
\* single quotes), a colon, whitespace, a bracket, and the shortest run up
\* to a closing bracket directly followed by a closing brace.
ReviewsRegex(t) ==
    LET Open(i) == SkipWs(t, i + 5)
        Ends(i) == {e \in (Open(i)+1)..(Len(t)-1) : t[e] = "]" /\ t[e+1] = "}"}
        Ok(i) == /\ i + 4 <= Len(t)
                 /\ t[i] = "{"
                 /\ t[i+1] \in {DQ, SQ}
                 /\ t[i+2] = "reviews"
                 /\ t[i+3] = t[i+1]
                 /\ t[i+4] = ":"
                 /\ Open(i) <= Len(t)
                 /\ t[Open(i)] = "["
                 /\ Ends(i) # {}
        Starts == {i \in 1..Len(t) : Ok(i)}
    IN IF Starts = {} THEN NoMatch
       ELSE LET i == Min(Starts)
            IN [found |-> TRUE, cap |-> SubSeq(t, i, Min(Ends(i)) + 1)]

(***************************************************************************)
(* The extraction tiers of the provider functions.  Each takes the         *)
(* response text and yields the value the function returns (Null for the   *)
(* hard failure).                                                          *)
(***************************************************************************)
REVIEWS == <<"reviews">>
EmptyArray == Arr(<<>>)

\* getDeepseekResponse of "current" and "legacy": the whole text, then the
\* first fenced block, then null.
DeepseekTiersCurrent(content) ==
    LET whole == JSONparse(content)
        block == CodeBlockRegex(content)
        inner == JSONparse(block.cap)
    IN IF whole.ok /\ Truthy(whole.val) /\ Truthy(Get(whole.val, REVIEWS))
       THEN Get(whole.val, REVIEWS)
       ELSE IF block.found /\ inner.ok /\ Truthy(inner.val)
                           /\ Truthy(Get(inner.val, REVIEWS))
       THEN Get(inner.val, REVIEWS)
       ELSE Null

\* getDeepseekResponse of "heuristic": the first fenced block, then the
\* whole text, then the first brace-delimited run, then the empty array.
DeepseekTiersHeuristic(content) ==
    LET block == CodeBlockRegex(content)
        inner == JSONparse(block.cap)
        whole == JSONparse(content)
        brace == BraceRegex(content)
        last == JSONparse(brace.cap)
        OrEmpty(v) == IF Truthy(Get(v, REVIEWS)) THEN Get(v, REVIEWS)
                      ELSE EmptyArray
    IN IF block.found /\ inner.ok THEN OrEmpty(inner.val)
       ELSE IF whole.ok /\ ~Nullish(whole.val) THEN OrEmpty(whole.val)
       ELSE IF brace.found /\ last.ok THEN OrEmpty(last.val)
       ELSE EmptyArray

\* getOpenAIResponse of "current": the whole text, then the reviews pattern
\* with single quotes turned into double quotes, then the first fenced
\* block, then the empty array.
OpenAITiersCurrent(res) ==
    LET whole == JSONparse(res)
        pat == ReviewsRegex(res)
        patJson == JSONparse(ReplaceQuotes(pat.cap))
        block == CodeBlockRegex(res)
        inner == JSONparse(block.cap)
        HasArray(p) == p.ok /\ ~Nullish(p.val) /\ IsArray(Get(p.val, REVIEWS))
    IN IF HasArray(whole) THEN Get(whole.val, REVIEWS)
       ELSE IF pat.found /\ HasArray(patJson) THEN Get(patJson.val, REVIEWS)
       ELSE IF block.found /\ HasArray(inner) THEN Get(inner.val, REVIEWS)
       ELSE EmptyArray

\* getOpenAIResponse of "legacy" and "heuristic": JSON.parse(res).reviews,
\* null when that throws.
OpenAIParseLegacy(res) ==
    LET whole == JSONparse(res)
    IN IF whole.ok /\ ~Nullish(whole.val) THEN Get(whole.val, REVIEWS)
       ELSE Null

(***************************************************************************)
(* The provider functions from the point where the HTTP request completes. *)
(* resp.http is the outcome of the request: "reject" (network error or     *)
(* timeout), "notok" (non-2xx status), "nochoices" (a body without         *)
(* choices[0].message), "nocontent" (a message without content), "ok".     *)
(***************************************************************************)
Ret(v) == [kind |-> "return", val |-> v]
Thrown == [kind |-> "throw"]

HttpOk(content) == [http |-> "ok", content |-> content]
HttpFail(how) == [http |-> how, content |-> <<>>]

getDeepseekResponse(v, resp) ==
    IF v = "heuristic"
    THEN IF resp.http = "ok"
         THEN Ret(DeepseekTiersHeuristic(Trim(resp.content)))
         ELSE Ret(Null)
    ELSE IF resp.http \in {"reject", "notok"} THEN Thrown
    ELSE IF resp.http # "ok" \/ resp.content = <<>> THEN Ret(Null)
    ELSE Ret(DeepseekTiersCurrent(resp.content))

getOpenAIResponse(v, resp) ==
    LET res == IF resp.http = "ok" /\ Trim(resp.content) # <<>>
               THEN Trim(resp.content) ELSE <<"{", "}">>
    IN IF v = "current"
       THEN IF resp.http \in {"reject", "notok", "nochoices"}
            THEN Ret(EmptyArray)
            ELSE Ret(OpenAITiersCurrent(res))
       ELSE IF resp.http \in {"reject", "notok", "nochoices"}
            THEN Ret(Null)
            ELSE Ret(OpenAIParseLegacy(res))

ProviderFns == {"getDeepseekResponse", "getOpenAIResponse"}

CallProviderFn(v, fn, resp) ==
    IF fn = "getDeepseekResponse" THEN getDeepseekResponse(v, resp)
    ELSE getOpenAIResponse(v, resp)

(***************************************************************************)
(* Response texts.                                                         *)
(***************************************************************************)
StrLit(s) == <<DQ>> \o s \o <<DQ>>
Member(key, valueText) == StrLit(<<key>>) \o <<":">> \o valueText
ObjectText(members) == <<"{">> \o Join(members, <<",">>) \o <<"}">>
ArrayText(elems) == <<"[">> \o Join(elems, <<",">>) \o <<"]">>

ItemFull ==
    ObjectText(<< Member("lineNumber", <<"1">>),
                  Member("reviewComment", StrLit(<<"fix", SP, "typo">>)),
                  Member("suggestion", StrLit(<<"good", SP, "line">>)) >>)
ItemNoSuggestion ==
    ObjectText(<< Member("lineNumber", <<"2">>),
                  Member("reviewComment", StrLit(<<"unclear">>)) >>)
ItemFenceInComment ==
    ObjectText(<< Member("lineNumber", <<"1">>),
                  Member("reviewComment",
                         StrLit(<<"use", SP, "{", "x", "}", BT, BT, BT>>)),
                  Member("suggestion", StrLit(<<"y">>)) >>)
ItemApostrophe ==
    ObjectText(<< Member("lineNumber", <<"3">>),
                  Member("reviewComment", StrLit(<<"it", SQ, "s">>)),
                  Member("suggestion", StrLit(<<"z">>)) >>)
ItemScalar == <<"9">>

ItemPool == {ItemFull, ItemNoSuggestion, ItemFenceInComment, ItemApostrophe,
             ItemScalar}

RECURSIVE SeqsUpTo(_, _)
SeqsUpTo(S, n) ==
    IF n = 0 THEN {<<>>}
    ELSE LET shorter == SeqsUpTo(S, n - 1)
         IN shorter \cup {Append(q, x) : q \in {r \in shorter : Len(r) = n - 1},
                                         x \in S}

PayloadText(items) == ObjectText(<< Member("reviews", ArrayText(items)) >>)

\* The valid payloads: an object whose reviews member is an array.
Payloads == {PayloadText(items) : items \in SeqsUpTo(ItemPool, MaxItems)}

Fence == <<BT, BT, BT>>
Wrappers == {"bare", "fence", "fencejson", "prose", "prosefence"}

Wrap(w, payload) ==
    CASE w = "bare" -> payload
      [] w = "fence" -> Fence \o <<NL>> \o payload \o <<NL>> \o Fence
      [] w = "fencejson" ->
            Fence \o <<"json", NL>> \o payload \o <<NL>> \o Fence
      [] w = "prose" ->
            <<"Here", SP, "is", SP>> \o payload \o <<SP, "done">>
      [] w = "prosefence" ->
            <<"Here", ":", NL>> \o Fence \o <<"json", NL>> \o payload
                \o <<NL>> \o Fence \o <<NL, "done">>
      [] OTHER -> payload

\* Response texts that are not a wrapped valid payload.
Specials ==
    { <<"no", SP, "issues">>,
      <<>>,
      <<SP, NL>>,
      <<"{", "}">>,
      <<"null">>,
      ObjectText(<< Member("other", ArrayText(<<>>)) >>),
      ObjectText(<< Member("data", PayloadText(<< <<"1">> >>)) >>),
      ObjectText(<< Member("reviews", StrLit(<<"x">>)) >>),
      ObjectText(<< Member("reviews", <<"null">>) >>),
      <<"{", SQ, "reviews", SQ, ":", "[", "1", "]", "}">>,
      <<"{", SP>> \o Member("reviews", <<SP, "[", SP, "]">>) \o <<SP, "}">>,
      Wrap("fence", ObjectText(<< Member("other", ArrayText(<<>>)) >>)),
      <<"see", SP>> \o ObjectText(<< Member("other", <<"1">>) >>) }

(***************************************************************************)
(* Specification of the extractors: a provider function is applied to one  *)
(* response text.                                                          *)
(***************************************************************************)
NotRun == [kind |-> "none"]

IdleExtract ==
    /\ xFn = "none"
    /\ xWrap = "none"
    /\ xPayload = <<>>
    /\ xContent = <<>>
    /\ xpc = "idle"
    /\ xResult = NotRun

ExtractDeepseek ==
    /\ xpc = "ready"
    /\ xFn = "getDeepseekResponse"
    /\ xResult' = getDeepseekResponse(variant, HttpOk(xContent))
    /\ xpc' = "done"
    /\ UNCHANGED <<variant, xFn, xWrap, xPayload, xContent, workTree, cvars,
                   pvars>>

ExtractOpenAI ==
    /\ xpc = "ready"
    /\ xFn = "getOpenAIResponse"
    /\ xResult' = getOpenAIResponse(variant, HttpOk(xContent))
    /\ xpc' = "done"
    /\ UNCHANGED <<variant, xFn, xWrap, xPayload, xContent, workTree, cvars,
                   pvars>>

NextExtract == ExtractDeepseek \/ ExtractOpenAI

(***************************************************************************)
(* The diff model of parse-diff: files, chunks and changes.  An added or   *)
(* deleted change has the single number ln, a context change has ln1 (old  *)
(* side) and ln2 (new side).                                               *)
(***************************************************************************)
NoTo == ""          \* a file without target path (file.to undefined)
DevNull == "/dev/null"

AddChange(n, text) == [type |-> "add", ln |-> n, content |-> text]
DelChange(n, text) == [type |-> "del", ln |-> n, content |-> text]
NormalChange(o, n, text) ==
    [type |-> "normal", ln1 |-> o, ln2 |-> n, content |-> text]

File(to, chunks) == [to |-> to, chunks |-> chunks]
Chunk(changes) == [changes |-> changes]

(***************************************************************************)
(* JavaScript conversions used when a comment is built.                    *)
(***************************************************************************)
NumAtom(n) == CHOOSE a \in DOMAIN NumTable : NumTable[a] = n

\* String(v), as a template literal applies it.
RECURSIVE ToText(_)
ToText(v) ==
    CASE v.k = "string" -> v.s
      [] v.k = "undefined" -> <<"undefined">>
      [] v.k = "null" -> <<"null">>
      [] v.k = "number" ->
            IF "nan" \in DOMAIN v THEN <<"NaN">> ELSE <<NumAtom(v.n)>>
      [] v.k = "array" ->
            Join([i \in 1..Len(v.a) |->
                    IF Nullish(v.a[i]) THEN <<>> ELSE ToText(v.a[i])], <<",">>)
      [] OTHER -> <<"[object Object]">>

\* Number(v)
ToNumber(v) ==
    LET OfText(t) ==
            IF Trim(t) = <<>> THEN Num(0)
            ELSE IF Len(Trim(t)) = 1 /\ Trim(t)[1] \in DOMAIN NumTable
            THEN Num(NumTable[Trim(t)[1]])
            ELSE NaN
    IN CASE v.k = "number" -> v
         [] v.k = "string" -> OfText(v.s)
         [] v.k = "null" -> Num(0)
         [] v.k = "array" -> OfText(ToText(v))
         [] OTHER -> NaN

LeadingWs(t) == SubSeq(t, 1, SkipWs(t, 1) - 1)

MatchAt(s, i, lit) ==
    /\ i >= 1
    /\ i + Len(lit) - 1 <= Len(s)
    /\ \A j \in 1..Len(lit) : s[i + j - 1] = lit[j]

StartsWith(s, prefix) == MatchAt(s, 1, prefix)

\* String.prototype.indexOf, 1-based; 0 when the needle does not occur.
IndexOf(hay, needle) ==
    LET hits == {i \in 1..(Len(hay) + 1) : MatchAt(hay, i, needle)}
    IN IF hits = {} THEN 0 ELSE Min(hits)

Includes(hay, needle) == IndexOf(hay, needle) # 0

\* String.prototype.replace with a string pattern: the first occurrence.
Replace(hay, old, new) ==
    LET i == IndexOf(hay, old)
    IN IF i = 0 THEN hay
       ELSE SubSeq(hay, 1, i - 1) \o new \o SubSeq(hay, i + Len(old), Len(hay))

(***************************************************************************)
(* createComment of "legacy": every item becomes a comment whose body is   *)
(* the review comment and the suggestion in a four-backtick fence.         *)
(***************************************************************************)
LINENUMBER == <<"lineNumber">>
REVIEWCOMMENT == <<"reviewComment">>
SUGGESTION == <<"suggestion">>

Fence4 == <<BT, BT, BT, BT>>

SuggestionBody4(commentText, suggestionText) ==
    commentText \o <<NL, NL>> \o Fence4 \o <<"suggestion", NL>>
        \o suggestionText \o <<NL>> \o Fence4

Comment(body, path, line) == [body |-> body, path |-> path, line |-> line]

createCommentLegacy(file, chunk, aiResponses) ==
    IF ~IsArray(aiResponses) THEN Thrown
    ELSE IF file.to = NoTo THEN Ret(<<>>)
    ELSE IF \E i \in 1..Len(aiResponses.a) : Nullish(aiResponses.a[i])
    THEN Thrown
    ELSE Ret([i \in 1..Len(aiResponses.a) |->
                LET item == aiResponses.a[i]
                IN Comment(Str(SuggestionBody4(
                                  ToText(Get(item, REVIEWCOMMENT)),
                                  ToText(Get(item, SUGGESTION)))),
                           file.to,
                           ToNumber(Get(item, LINENUMBER)))])

(***************************************************************************)
(* createComment of "current": the suggestion is re-indented with the      *)
(* leading whitespace of the line of that number in the working-tree file. *)
(* wt is the state of the file at file.to: whether it exists, whether it   *)
(* can be read, and its lines.                                             *)
(***************************************************************************)
FileState(exists, readable, lines) ==
    [exists |-> exists, readable |-> readable, lines |-> lines]

\* A recovery that assumes two spaces instead of looking the line up.
OriginalIndentAssumed(wt, lineNum) == <<SP, SP>>

\* The indentation found for lineNum, empty when none is found.
OriginalIndent(wt, lineNum) ==
    LET n == ToNumber(lineNum)
    IN IF /\ wt.exists
          /\ wt.readable
          /\ "nan" \notin DOMAIN n
          /\ n.n >= 1
          /\ n.n <= Len(wt.lines)
       THEN LeadingWs(wt.lines[n.n])
       ELSE <<>>

CurrentItemThrows(item) ==
    Nullish(item) \/ Get(item, SUGGESTION).k # "string"

\* A recovery that replaces the leading whitespace of every suggestion by
\* the indentation found.
CurrentCommentReindents(file, item, wt) ==
    Comment(Str(SuggestionBody4(
                    ToText(Get(item, REVIEWCOMMENT)),
                    OriginalIndent(wt, Get(item, LINENUMBER))
                        \o TrimStart(Get(item, SUGGESTION).s))),
            file.to,
            ToNumber(Get(item, LINENUMBER)))

CurrentComment(file, item, wt) ==
    LET lineNum == Get(item, LINENUMBER)
        suggestion == Get(item, SUGGESTION).s
        originalIndent == OriginalIndent(wt, lineNum)
        suggestionText ==
            IF LeadingWs(suggestion) # <<>> THEN suggestion
            ELSE IF originalIndent # <<>> /\ ~StartsWith(suggestion, originalIndent)
            THEN originalIndent \o TrimStart(suggestion)
            ELSE suggestion
    IN Comment(Str(SuggestionBody4(ToText(Get(item, REVIEWCOMMENT)),
                                   suggestionText)),
               file.to,
               ToNumber(lineNum))

createCommentCurrent(file, chunk, aiResponses, wt) ==
    IF file.to = NoTo THEN Ret(<<>>)
    ELSE IF ~IsArray(aiResponses) THEN Thrown
    ELSE IF \E i \in 1..Len(aiResponses.a) : CurrentItemThrows(aiResponses.a[i])
    THEN Thrown
    ELSE Ret([i \in 1..Len(aiResponses.a) |->
                CurrentComment(file, aiResponses.a[i], wt)])

(***************************************************************************)
(* createComment of "heuristic": the item carries no suggestion; one is    *)
(* derived from the prose of the review comment and the content of the     *)
(* change the line number resolves to.                                     *)
(***************************************************************************)
\* getChangeLineNumber of "heuristic": whether the change has the target
\* number as ln or as ln2.
\* A lookup that also accepts the old-side number of a context change.
getChangeLineNumberOldSide(change, targetLineNumber) ==
    \/ "ln" \in DOMAIN change /\ Num(change.ln) = targetLineNumber
    \/ "ln2" \in DOMAIN change /\ Num(change.ln2) = targetLineNumber
    \/ "ln1" \in DOMAIN change /\ Num(change.ln1) = targetLineNumber

getChangeLineNumber(change, targetLineNumber) ==
    \/ "ln" \in DOMAIN change /\ Num(change.ln) = targetLineNumber
    \/ "ln2" \in DOMAIN change /\ Num(change.ln2) = targetLineNumber

\* A lookup that keeps scanning and ends with the last change that has the
\* line number.
LineContentLast(chunk, lineNumber) ==
    LET hits == {i \in 1..Len(chunk.changes) :
                    getChangeLineNumber(chunk.changes[i], lineNumber)}
    IN IF hits = {} THEN <<>>
       ELSE chunk.changes[CHOOSE i \in hits : \A j \in hits : j <= i].content

\* The content of the first change of the chunk that has the line number,
\* the empty text when there is none.
LineContent(chunk, lineNumber) ==
    LET hits == {i \in 1..Len(chunk.changes) :
                    getChangeLineNumber(chunk.changes[i], lineNumber)}
    IN IF hits = {} THEN <<>> ELSE chunk.changes[Min(hits)].content

IsQuote(a) == a \in {SQ, DQ}

\* Last position of the run without quotes that starts at a (a - 1 when the
\* run is empty).
RunEnd(s, a) ==
    CHOOSE b \in (a-1)..Len(s) :
        /\ \A m \in a..b : ~IsQuote(s[m])
        /\ (b = Len(s) \/ IsQuote(s[b+1]))

QuoteSkip(s, p) == IF p >= 1 /\ p <= Len(s) /\ IsQuote(s[p]) THEN p + 1 ELSE p

\* The leftmost match of
\*     prefix ['"]?([^'"]+)['"]? mid ['"]?([^'"]+)['"]?
\* with the greedy first group backing off to the last place where mid
\* follows.  g1 and g2 are the two groups.
PatternMatch(s, prefix, mid) ==
    LET A(i) == QuoteSkip(s, i + Len(prefix))
        M(b) == QuoteSkip(s, b + 1)
        C(b) == QuoteSkip(s, M(b) + Len(mid))
        Bs(i) == {b \in A(i)..RunEnd(s, A(i)) :
                     /\ MatchAt(s, M(b), mid)
                     /\ C(b) <= Len(s)
                     /\ ~IsQuote(s[C(b)])}
        Starts == {i \in 1..Len(s) : MatchAt(s, i, prefix) /\ Bs(i) # {}}
    IN IF Starts = {} THEN [found |-> FALSE, g1 |-> <<>>, g2 |-> <<>>]
       ELSE LET i == Min(Starts)
                b == CHOOSE x \in Bs(i) : \A y \in Bs(i) : y <= x
            IN [found |-> TRUE,
                g1 |-> SubSeq(s, A(i), b),
                g2 |-> SubSeq(s, C(b), RunEnd(s, C(b)))]

\* The patterns of extractSuggestion, in order.  old names the group that
\* holds the text to replace.  YINGWEI, GAIWEI and JIANG stand for the
\* Chinese words of the last three patterns.
Patterns ==
    << [prefix |-> <<>>, mid |-> <<SP, "should", SP, "be", SP>>, old |-> 1],
       [prefix |-> <<"change", SP>>, mid |-> <<SP, "to", SP>>, old |-> 1],
       [prefix |-> <<>>, mid |-> <<SP, "instead", SP, "of", SP>>, old |-> 2],
       [prefix |-> <<>>, mid |-> <<SP, "YINGWEI", SP>>, old |-> 1],
       [prefix |-> <<>>, mid |-> <<SP, "GAIWEI", SP>>, old |-> 1],
       [prefix |-> <<"JIANG", SP>>, mid |-> <<SP, "GAIWEI", SP>>, old |-> 1] >>

\* Whether pattern n applies to the comment and the line: it matches and
\* the old text occurs in the line.
PatternOld(comment, n) ==
    LET m == PatternMatch(comment, Patterns[n].prefix, Patterns[n].mid)
    IN Trim(IF Patterns[n].old = 1 THEN m.g1 ELSE m.g2)
PatternNew(comment, n) ==
    LET m == PatternMatch(comment, Patterns[n].prefix, Patterns[n].mid)
    IN Trim(IF Patterns[n].old = 1 THEN m.g2 ELSE m.g1)
PatternApplies(comment, lineContent, n) ==
    /\ PatternMatch(comment, Patterns[n].prefix, Patterns[n].mid).found
    /\ Includes(lineContent, PatternOld(comment, n))

\* All matches of /['"]([^'"]+)['"]/g from position from on, each without
\* its quotes and trimmed.
RECURSIVE QuotedSpans(_, _)
QuotedSpans(s, from) ==
    LET Ok(i) == /\ IsQuote(s[i])
                 /\ RunEnd(s, i + 1) >= i + 1
                 /\ RunEnd(s, i + 1) < Len(s)
        starts == {i \in from..Len(s) : Ok(i)}
    IN IF starts = {} THEN <<>>
       ELSE LET i == Min(starts)
                e == RunEnd(s, i + 1)
            IN <<Trim(SubSeq(s, i + 1, e))>> \o QuotedSpans(s, e + 2)

NoSuggestion == [found |-> FALSE, text |-> <<>>]
Suggest(t) == [found |-> TRUE, text |-> t]

\* Two quoted texts: the second replaces the first in the line; a variant
\* that takes the second as the whole line.
TwoSpansUnchecked(lineContent, spans) == Suggest(spans[2])
TwoSpans(lineContent, spans) ==
    IF Includes(lineContent, spans[1])
    THEN Suggest(Replace(lineContent, spans[1], spans[2]))
    ELSE NoSuggestion

extractSuggestion(comment, lineContent) ==
    LET applicable == {n \in 1..Len(Patterns) :
                          PatternApplies(comment, lineContent, n)}
        spans == QuotedSpans(comment, 1)
    IN IF applicable # {}
       THEN LET n == Min(applicable)
            IN Suggest(Replace(lineContent, PatternOld(comment, n),
                               PatternNew(comment, n)))
       ELSE IF Len(spans) = 1
       THEN IF spans[1] # <<>> /\ spans[1] # Trim(lineContent)
            THEN Suggest(spans[1]) ELSE NoSuggestion
       ELSE IF Len(spans) = 2 THEN TwoSpans(lineContent, spans)
       ELSE NoSuggestion

Fence3 == <<BT, BT, BT>>

HeuristicItemThrows(chunk, item) ==
    \/ Nullish(item)
    \/ /\ Trim(LineContent(chunk, ToNumber(Get(item, LINENUMBER)))) # <<>>
       /\ Get(item, REVIEWCOMMENT).k # "string"

HeuristicComment(file, chunk, item) ==
    LET lineNumber == ToNumber(Get(item, LINENUMBER))
        lineContent == LineContent(chunk, lineNumber)
        body == Get(item, REVIEWCOMMENT)
        suggestion == IF Trim(lineContent) # <<>>
                      THEN extractSuggestion(body.s, lineContent)
                      ELSE NoSuggestion
    IN Comment(IF suggestion.found /\ suggestion.text # <<>>
               THEN Str(body.s \o <<NL, NL>> \o Fence3 \o <<"suggestion", NL>>
                               \o Trim(suggestion.text) \o <<NL>> \o Fence3)
               ELSE body,
               file.to,
               lineNumber)

createCommentHeuristic(file, chunk, aiResponses) ==
    IF ~IsArray(aiResponses) THEN Thrown
    ELSE IF file.to = NoTo THEN Ret(<<>>)
    ELSE IF \E i \in 1..Len(aiResponses.a) :
                HeuristicItemThrows(chunk, aiResponses.a[i])
    THEN Thrown
    ELSE Ret([i \in 1..Len(aiResponses.a) |->
                HeuristicComment(file, chunk, aiResponses.a[i])])

(***************************************************************************)
(* createComment of "structural" (src/unnamed/part_000): the suggestion    *)
(* is derived from the comment by a chain of patterns, and further blocks  *)
(* are appended for some Chinese texts.  Each Chinese character is an atom *)
(* of its own; a word of letters is one atom, so the first character of a  *)
(* text and a common prefix are taken atom by atom.                        *)
(***************************************************************************)
JIA == "JIA"
GOU == "GOU"
SHE == "SHE"
JI == "JI"
XIN == "XIN"
LAO == "LAO"
DUI == "DUI"
BI == "BI"
HASH == "#"

\* [一-龥]
IsChinese(a) ==
    a \in {JIA, GOU, SHE, JI, XIN, LAO, DUI, BI, "YINGWEI", "GAIWEI", "JIANG"}

\* Number of characters of an atom, and String.prototype.length.
CharLen(a) ==
    IF a \in {BT, JIA, GOU, SHE, JI, XIN, LAO, DUI, BI, "JIANG"} THEN 1
    ELSE IF a \in {"YINGWEI", "GAIWEI"} THEN 2
    ELSE Len(a)
RECURSIVE Length(_)
Length(t) == IF t = <<>> THEN 0 ELSE CharLen(Head(t)) + Length(Tail(t))

\* [^'".,]
IsStop(a) == a \in {SQ, DQ, ".", ","}

\* Last position of the run without quotes, full stops and commas that
\* starts at a (a - 1 when the run is empty).
StopRunEnd(s, a) ==
    CHOOSE b \in (a-1)..Len(s) :
        /\ \A m \in a..b : ~IsStop(s[m])
        /\ (b = Len(s) \/ IsStop(s[b+1]))

NoGroups == [found |-> FALSE, g1 |-> <<>>, g2 |-> <<>>]

\* The leftmost match of  lit ['"]?([^'".,]+)['"]?  and its group.
LitGroup(s, lit) ==
    LET G(i) == QuoteSkip(s, i + Len(lit))
        Starts == {i \in 1..Len(s) :
                      /\ MatchAt(s, i, lit)
                      /\ G(i) <= Len(s)
                      /\ ~IsStop(s[G(i)])}
    IN IF Starts = {} THEN NoGroups
       ELSE LET i == Min(Starts)
            IN [found |-> TRUE,
                g1 |-> SubSeq(s, G(i), StopRunEnd(s, G(i))),
                g2 |-> <<>>]

\* The leftmost match of
\*     change ['"]?([^'"]+)['"]? to ['"]?([^'".,]+)['"]?
ChangeToMatch(s) ==
    LET prefix == <<"change", SP>>
        mid == <<SP, "to", SP>>
        A(i) == QuoteSkip(s, i + Len(prefix))
        M(b) == QuoteSkip(s, b + 1)
        C(b) == QuoteSkip(s, M(b) + Len(mid))
        Bs(i) == {b \in A(i)..RunEnd(s, A(i)) :
                     /\ MatchAt(s, M(b), mid)
                     /\ C(b) <= Len(s)
                     /\ ~IsStop(s[C(b)])}
        Starts == {i \in 1..Len(s) : MatchAt(s, i, prefix) /\ Bs(i) # {}}
    IN IF Starts = {} THEN NoGroups
       ELSE LET i == Min(Starts)
                b == CHOOSE x \in Bs(i) : \A y \in Bs(i) : y <= x
            IN [found |-> TRUE,
                g1 |-> SubSeq(s, A(i), b),
                g2 |-> SubSeq(s, C(b), StopRunEnd(s, C(b)))]

\* The leftmost match of  ["']([^"']+[一-龥]+[^"']*)["']
ChineseCharMatch(s) ==
    LET E(i) == RunEnd(s, i + 1)
        Starts == {i \in 1..Len(s) :
                      /\ IsQuote(s[i])
                      /\ E(i) < Len(s)
                      /\ \E m \in (i+2)..E(i) : IsChinese(s[m])}
    IN IF Starts = {} THEN NoGroups
       ELSE LET i == Min(Starts)
            IN [found |-> TRUE, g1 |-> SubSeq(s, i + 1, E(i)), g2 |-> <<>>]

\* String.prototype.split(/\s+/)
RECURSIVE Split(_)
Split(t) ==
    LET ws == {i \in 1..Len(t) : IsWs(t[i])}
    IN IF ws = {} THEN <<t>>
       ELSE LET i == Min(ws)
            IN <<SubSeq(t, 1, i - 1)>>
                   \o Split(SubSeq(t, SkipWs(t, i), Len(t)))

findCommonPrefix(str1, str2) ==
    LET n == CHOOSE i \in 0..Len(str1) :
                 /\ i <= Len(str2)
                 /\ \A j \in 1..i : str1[j] = str2[j]
                 /\ (i = Len(str1) \/ i = Len(str2) \/ str1[i+1] # str2[i+1])
    IN SubSeq(str1, 1, n)

Block3(body, text) ==
    body \o <<NL, NL>> \o Fence3 \o <<"suggestion", NL>> \o text
         \o <<NL>> \o Fence3

\* The branch of the comment that says "should be X".
ShouldBeBlock(body, lineContent, group) ==
    LET suggestion == Trim(group)
        line == Trim(lineContent)
        first == IF line = <<>> THEN <<>> ELSE <<line[1]>>
        leadingWhitespace == LeadingWs(lineContent)
        commonPrefix == findCommonPrefix(line, suggestion)
        restOfLine == SubSeq(line, Len(commonPrefix) + 1, Len(line))
        restOfSuggestion ==
            SubSeq(suggestion, Len(commonPrefix) + 1, Len(suggestion))
    IN IF Includes(suggestion, <<HASH>>) \/ StartsWith(suggestion, first)
       THEN Block3(body, suggestion)
       ELSE IF Len(Split(line)) = Len(Split(suggestion))
       THEN Block3(body, suggestion)
       ELSE IF commonPrefix # <<>> /\ restOfLine # <<>>
               /\ restOfSuggestion # <<>>
       THEN Block3(body, leadingWhitespace
                             \o Replace(line, restOfLine, restOfSuggestion))
       ELSE Block3(body, leadingWhitespace \o suggestion)

\* The chain of patterns: should be, change to, replace with, missing.
PatternChain(body, lineContent) ==
    LET shouldBeMatch == LitGroup(body, <<"should", SP, "be", SP>>)
        changeToMatch == ChangeToMatch(body)
        replaceWithMatch == LitGroup(body, <<"replace", SP, "with", SP>>)
        typoMatch == LitGroup(body, <<"missing", SP>>)
    IN IF shouldBeMatch.found
       THEN ShouldBeBlock(body, lineContent, shouldBeMatch.g1)
       ELSE IF changeToMatch.found
       THEN IF Includes(lineContent, Trim(changeToMatch.g1))
            THEN Block3(body, Trim(Replace(lineContent, Trim(changeToMatch.g1),
                                           Trim(changeToMatch.g2))))
            ELSE body
       ELSE IF replaceWithMatch.found
       THEN Block3(body, Trim(replaceWithMatch.g1))
       ELSE IF typoMatch.found
               /\ lineContent[Len(lineContent)] = typoMatch.g1[1]
       THEN Block3(body, Trim(lineContent \o Tail(typoMatch.g1)))
       ELSE body

Incomplete1 == <<JIA, GOU, SHE>>
Complete1 == <<JIA, GOU, SHE, JI>>
Incomplete2 == <<XIN, LAO, JIA, DUI, BI>>
Complete2 == <<XIN, LAO, JIA, GOU, DUI, BI>>

SpecialCase1(body, lineContent) ==
    IF /\ Includes(lineContent, Incomplete1)
       /\ ~Includes(lineContent, Complete1)
       /\ (Includes(body, Complete1) \/ Includes(body, <<"incomplete">>))
    THEN Block3(body, Trim(Replace(lineContent, Incomplete1, Complete1)))
    ELSE body

SpecialCase2(body, lineContent) ==
    IF /\ Includes(lineContent, Incomplete2)
       /\ ~Includes(lineContent, Complete2)
       /\ Includes(body, Complete2)
    THEN Block3(body, Trim(Replace(lineContent, Incomplete2, Complete2)))
    ELSE body

\* A quoted text with Chinese characters is taken as the correction.
ChineseCorrection(body, lineContent) ==
    LET chineseCharMatch == ChineseCharMatch(body)
        suggestedText == Trim(chineseCharMatch.g1)
        words == Split(Trim(lineContent))
        hits == {i \in 1..Len(words) :
                    /\ Length(words[i]) > 1
                    /\ Includes(suggestedText, words[i])}
    IN IF ~chineseCharMatch.found
          \/ suggestedText = <<>>
          \/ Length(suggestedText) >= Length(lineContent) * 2
       THEN body
       ELSE IF StartsWith(Trim(lineContent), <<HASH>>)
               /\ Includes(suggestedText, <<HASH>>)
       THEN Block3(body, suggestedText)
       ELSE IF hits = {} THEN body
       ELSE Block3(body, Trim(Replace(lineContent, words[Min(hits)],
                                      suggestedText)))

\* body.replace(/```suggestion\n.*\n```/s, block): from the first opening
\* fence to the last closing fence.
ReplaceBlocks(body, block) ==
    LET open == Fence3 \o <<"suggestion", NL>>
        close == <<NL>> \o Fence3
        i == IndexOf(body, open)
        ends == {e \in (i + Len(open))..Len(body) : MatchAt(body, e, close)}
    IN IF i = 0 \/ ends = {} THEN body
       ELSE LET e == CHOOSE x \in ends : \A y \in ends : y <= x
            IN SubSeq(body, 1, i - 1) \o block
                   \o SubSeq(body, e + Len(close), Len(body))

HeadingCase(body, lineContent) ==
    LET old == <<HASH, HASH, SP>> \o Incomplete2
        text == Trim(Replace(lineContent, old,
                             <<HASH, HASH, SP>> \o Complete2))
    IN IF ~Includes(lineContent, old) THEN body
       ELSE IF ~Includes(body, Fence3 \o <<"suggestion">>)
       THEN Block3(body, text)
       ELSE ReplaceBlocks(body, Block3(<<>>, text))

StructuralBody(body, lineContent) ==
    IF lineContent = <<>> THEN body
    ELSE HeadingCase(
             ChineseCorrection(
                 SpecialCase2(
                     SpecialCase1(PatternChain(body, lineContent),
                                  lineContent),
                     lineContent),
                 lineContent),
             lineContent)

StructuralItemThrows(chunk, item) ==
    \/ Nullish(item)
    \/ /\ LineContent(chunk, ToNumber(Get(item, LINENUMBER))) # <<>>
       /\ Get(item, REVIEWCOMMENT).k # "string"

StructuralComment(file, chunk, item) ==
    LET lineNumber == ToNumber(Get(item, LINENUMBER))
        lineContent == LineContent(chunk, lineNumber)
        body == Get(item, REVIEWCOMMENT)
    IN Comment(IF lineContent = <<>> THEN body
               ELSE Str(StructuralBody(body.s, lineContent)),
               file.to, lineNumber)

createCommentStructural(file, chunk, aiResponses) ==
    IF ~IsArray(aiResponses) THEN Thrown
    ELSE IF file.to = NoTo THEN Ret(<<>>)
    ELSE IF \E i \in 1..Len(aiResponses.a) :
                StructuralItemThrows(chunk, aiResponses.a[i])
    THEN Thrown
    ELSE Ret([i \in 1..Len(aiResponses.a) |->
                StructuralComment(file, chunk, aiResponses.a[i])])

createComment(v, file, chunk, aiResponses, wt) ==
    CASE v = "legacy" -> createCommentLegacy(file, chunk, aiResponses)
      [] v = "heuristic" -> createCommentHeuristic(file, chunk, aiResponses)
      [] v = "structural" -> createCommentStructural(file, chunk, aiResponses)
      [] OTHER -> createCommentCurrent(file, chunk, aiResponses, wt)

(***************************************************************************)
(* Inputs of createComment: chunks, working-tree files, review items.      *)
(* The content of a change is the diff line with its marker (+, - or a     *)
(* space) in front, as parse-diff delivers it.                             *)
(***************************************************************************)
ChunkA ==
    Chunk(<< NormalChange(1, 1, <<SP, "intro">>),
             DelChange(2, <<"-", SP, SP, "old", SP, "line">>),
             AddChange(2, <<"+", SP, SP, "new", SP, "line">>),
             AddChange(3, <<"+", "call", SP, "foo", SP, "now">>) >>)
ChunkB ==
    Chunk(<< NormalChange(5, 6, <<SP, "tail">>),
             AddChange(7, <<"+", "last", SP, "line">>) >>)

ChunkC ==
    Chunk(<< NormalChange(3, 3, <<SP, SP, SP, "-", SP, "old", SP, "phrase",
                                  SP, "here">>),
             AddChange(4, <<"+", HASH, HASH, SP, JIA, GOU, SHE>>) >>)

ChunkPool == {ChunkA, ChunkB, ChunkC}

FileMissing == FileState(FALSE, FALSE, <<>>)
FileUnreadable == FileState(TRUE, FALSE, <<>>)
FileIndented ==
    FileState(TRUE, TRUE,
              << <<"intro">>, <<SP, SP, "new", SP, "line">>,
                 <<"call", SP, "foo", SP, "now">> >>)
FileShort == FileState(TRUE, TRUE, << <<>> >>)

FileStates == {FileMissing, FileUnreadable, FileIndented, FileShort}

Paths == {"a.md", "b.md"}

ItemResolved ==
    Obj(<< [key |-> LINENUMBER, val |-> Num(2)],
           [key |-> REVIEWCOMMENT, val |-> Str(<<"fix", SP, "typo">>)],
           [key |-> SUGGESTION, val |-> Str(<<"new", SP, "line">>)] >>)
ItemHallucinated ==
    Obj(<< [key |-> LINENUMBER, val |-> Num(9)],
           [key |-> REVIEWCOMMENT, val |-> Str(<<"unclear">>)],
           [key |-> SUGGESTION, val |-> Str(<<SP, SP, "clear">>)] >>)
ItemNonNumeric ==
    Obj(<< [key |-> LINENUMBER, val |-> Str(<<"abc">>)],
           [key |-> REVIEWCOMMENT, val |-> Str(<<"too", SP, "long">>)],
           [key |-> SUGGESTION, val |-> Str(<<"short">>)] >>)
ItemWithoutSuggestion ==
    Obj(<< [key |-> LINENUMBER, val |-> Num(3)],
           [key |-> REVIEWCOMMENT,
            val |-> Str(<<"foo", SP, "should", SP, "be", SP, "bar">>)] >>)
ItemWithoutComment ==
    Obj(<< [key |-> LINENUMBER, val |-> Num(3)],
           [key |-> SUGGESTION, val |-> Str(<<"call", SP, "bar", SP, "now">>)] >>)

ItemEmptySuggestion ==
    Obj(<< [key |-> LINENUMBER, val |-> Num(3)],
           [key |-> REVIEWCOMMENT,
            val |-> Str(<<"foo", SP, "should", SP, "be", SP, "bar">>)],
           [key |-> SUGGESTION, val |-> Str(<<>>)] >>)
ItemExplicitAndMatching ==
    Obj(<< [key |-> LINENUMBER, val |-> Num(3)],
           [key |-> REVIEWCOMMENT,
            val |-> Str(<<"foo", SP, "should", SP, "be", SP, "bar">>)],
           [key |-> SUGGESTION, val |-> Str(<<"call", SP, "baz">>)] >>)
ItemBackticks ==
    Obj(<< [key |-> LINENUMBER, val |-> Num(1)],
           [key |-> REVIEWCOMMENT, val |-> Str(<<"use", SP, BT, "x", BT>>)],
           [key |-> SUGGESTION,
            val |-> Str(<<BT, BT, BT, BT, "md", NL, "x", NL,
                          BT, BT, BT, BT>>)] >>)

ItemOldSide ==
    Obj(<< [key |-> LINENUMBER, val |-> Num(5)],
           [key |-> REVIEWCOMMENT,
            val |-> Str(<<"tail", SP, "should", SP, "be", SP, "end">>)] >>)

ItemPhrase ==
    Obj(<< [key |-> LINENUMBER, val |-> Num(3)],
           [key |-> REVIEWCOMMENT,
            val |-> Str(<<"old", SP, "phrase", SP, "should", SP, "be", SP,
                          "new", SP, "phrase">>)] >>)
ItemTwoSpans ==
    Obj(<< [key |-> LINENUMBER, val |-> Num(3)],
           [key |-> REVIEWCOMMENT,
            val |-> Str(<<"use", SP, DQ, "foo", DQ, SP, "as", SP,
                          DQ, "bar", DQ>>)] >>)
ItemChinese ==
    Obj(<< [key |-> LINENUMBER, val |-> Num(4)],
           [key |-> REVIEWCOMMENT,
            val |-> Str(<<"heading", SP, "should", SP, "be", SP, DQ,
                          HASH, HASH, SP, JIA, GOU, SHE, JI, DQ>>)] >>)

ItemDeletedSide ==
    Obj(<< [key |-> LINENUMBER, val |-> Num(2)],
           [key |-> REVIEWCOMMENT,
            val |-> Str(<<"use", SP, DQ, "old", DQ, SP, "as", SP,
                          DQ, "new", DQ>>)] >>)

ItemValues == {ItemResolved, ItemHallucinated, ItemNonNumeric, ItemDeletedSide,
               ItemWithoutSuggestion, ItemWithoutComment,
               ItemEmptySuggestion, ItemExplicitAndMatching, ItemBackticks,
               ItemOldSide, ItemPhrase, ItemTwoSpans, ItemChinese}

\* What a provider function can hand to createComment: an array of items,
\* or a truthy reviews value that is not an array.
ResponseValues ==
    {Arr(items) : items \in SeqsUpTo(ItemValues \cup {Null}, MaxItems)}
        \cup {Str(<<"none">>), Obj(<<>>)}

(***************************************************************************)
(* Specification of createComment: it is applied once to a file, a chunk   *)
(* and a provider result.                                                  *)
(***************************************************************************)
IdleComment ==
    /\ cFile = File(NoTo, <<>>)
    /\ cChunk = Chunk(<<>>)
    /\ cItems = Undefined
    /\ cpc = "idle"
    /\ cOut = NotRun

FileStateOf(wt, path) == IF path \in DOMAIN wt THEN wt[path] ELSE FileMissing

CreateComment ==
    /\ cpc = "ready"
    /\ cOut' = createComment(variant, cFile, cChunk, cItems,
                             FileStateOf(workTree, cFile.to))
    /\ cpc' = "done"
    /\ UNCHANGED <<variant, xvars, workTree, cFile, cChunk, cItems, pvars>>

NextComment == CreateComment

(***************************************************************************)
(* The run of the action: main validates the configuration, asks GitHub    *)
(* for the pull request and its diff, analyzeCode sends one prompt per     *)
(* chunk through getAIResponse and turns each answer into comments, and    *)
(* main posts the comments as one review.                                  *)
(***************************************************************************)
Providers == {"openai", "deepseek", "other"}

\* The client object is built only when openai is the selected provider.
openaiAlways == TRUE
openai == API_PROVIDER = "openai"

FileA == File("a.md", <<ChunkA>>)
FileB == File("b.md", <<ChunkB, ChunkA>>)
FileDeleted == File(DevNull, <<ChunkB>>)
FileNoPath == File(NoTo, <<ChunkB>>)

FilePool == {FileA, FileB, FileDeleted, FileNoPath}

RECURSIVE ChunkCount(_)
ChunkCount(diff) ==
    IF diff = <<>> THEN 0
    ELSE Len(Head(diff).chunks) + ChunkCount(Tail(diff))

\* The diffs GitHub can answer with.
DiffPool ==
    {d \in SeqsUpTo(FilePool, MaxFiles) : ChunkCount(d) <= MaxChunks}

\* The values of the exclude input: the paths its patterns match.
Excludes == {{}, {"b.md"}}

FilterDiff(parsedDiff, excluded) ==
    LET Kept(file) == file.to \notin excluded
    IN SelectSeq(parsedDiff, Kept)

\* Outcomes of a request to GitHub.
GitHubOutcomes == {"ok", "denied", "error"}

\* Answers of a provider in a run.
ProviderResponses ==
    { HttpFail("reject"),
      HttpFail("nocontent"),
      HttpOk(<<"no", SP, "issues">>),
      HttpOk(PayloadText(<<ItemFull>>)),
      HttpOk(PayloadText(<<ItemNoSuggestion>>)),
      HttpOk(ObjectText(<< Member("reviews", StrLit(<<"x">>)) >>)) }

SkipsNothing(v, file) == FALSE
Skipped(v, file) ==
    IF v = "current" THEN file.to = NoTo \/ file.to = DevNull
    ELSE file.to = DevNull

\* The chunks analyzeCode visits, in order.
RECURSIVE WorkFrom(_, _, _)
WorkFrom(v, diff, f) ==
    IF f > Len(diff) THEN <<>>
    ELSE (IF Skipped(v, diff[f]) THEN <<>>
          ELSE [c \in 1..Len(diff[f].chunks) |-> [file |-> f, chunk |-> c]])
         \o WorkFrom(v, diff, f + 1)

Work == WorkFrom(variant, filteredDiff, 1)

\* The prompt is a function of the file and the chunk (the pull request
\* title and description are the same for all chunks of a run).
createPrompt(file, chunk) == [to |-> file.to, chunk |-> chunk]

(***************************************************************************)
(* getAIResponse.  The provider selects the function called first; only    *)
(* the deepseek branch has a try/catch and a second call.                  *)
(***************************************************************************)
PrimaryFn(provider) ==
    IF provider = "openai" THEN "getOpenAIResponse"
    ELSE IF provider = "deepseek" THEN "getDeepseekResponse"
    ELSE "none"

\* A policy with a second call for either primary (the code has it for
\* deepseek only).
FallbackFnBoth(provider) ==
    IF provider = "deepseek" THEN "getOpenAIResponse"
    ELSE IF provider = "openai" THEN "getDeepseekResponse"
    ELSE "none"
FallbackFn(provider) ==
    IF provider = "deepseek" THEN "getOpenAIResponse" ELSE "none"

\* getAIResponse without its try/catch.
CatchesNothing(provider) == FALSE
\* The branches of getAIResponse that call inside a try/catch.
Catches(provider) == provider = "deepseek"

KeySet(fn) ==
    IF fn = "getOpenAIResponse" THEN OPENAI_API_KEY ELSE DEEPSEEK_API_KEY

\* Whether the function gets as far as a request to its provider.
Sends(fn) ==
    IF fn = "getOpenAIResponse" THEN openai ELSE DEEPSEEK_API_KEY

Call(fn, prompt, sent, result) ==
    [fn |-> fn, prompt |-> prompt, sent |-> sent, result |-> result]

Failed(result) == result = Thrown \/ result = Ret(Null)

\* A call that was sent and is awaited, against one that is not awaited.
PendingNotAwaited(calls) == [calls |-> calls, final |-> Ret(Null)]
Pending(calls) == [calls |-> calls, final |-> NotRun]
Final(calls, result) == [calls |-> calls, final |-> result]

\* The second call of getAIResponse: its result is final.
InvokeFallback(calls, fn, prompt) ==
    IF Sends(fn)
    THEN Pending(Append(calls, Call(fn, prompt, TRUE, NotRun)))
    ELSE Final(Append(calls, Call(fn, prompt, FALSE, Ret(Null))), Ret(Null))

\* getAIResponse from the point where the last call of calls has its result.
Step(calls) ==
    LET last == calls[Len(calls)]
        fallback == FallbackFn(API_PROVIDER)
    IN IF /\ Len(calls) = 1
          /\ fallback # "none"
          /\ Failed(last.result)
          /\ last.result = Thrown => Catches(API_PROVIDER)
       THEN IF KeySet(fallback)
            THEN InvokeFallback(calls, fallback, last.prompt)
            ELSE Final(calls, Ret(Null))
       ELSE Final(calls, last.result)

\* The first call of getAIResponse.
InvokePrimary(fn, prompt) ==
    IF Sends(fn)
    THEN Pending(<<Call(fn, prompt, TRUE, NotRun)>>)
    ELSE Step(<<Call(fn, prompt, FALSE, Ret(Null))>>)

getAIResponse(prompt) ==
    IF PrimaryFn(API_PROVIDER) = "none" THEN Final(<<>>, Ret(Null))
    ELSE InvokePrimary(PrimaryFn(API_PROVIDER), prompt)

SentCount(calls) == Cardinality({i \in 1..Len(calls) : calls[i].sent})

(***************************************************************************)
(* How a run ends.  "legacy" and "current" catch in main, mark the run     *)
(* failed and exit with status 1; "heuristic" has only the handler on the  *)
(* promise of main, which exits with status 1.                             *)
(***************************************************************************)
End(f, e, s, h) ==
    /\ failed' = f
    /\ exited' = e
    /\ success' = s
    /\ hadCriticalErrors' = h
    /\ pc' = "done"

MainCatch(h) == End(variant # "heuristic" \/ failed, TRUE, success, h)

\* main returns without a word.
Return == End(failed, exited, success, hadCriticalErrors)

\* main reaches its last statement.
Completed(h) ==
    End(failed, exited, variant # "heuristic" /\ ~h, h)

\* The catch around analysis and posting in "current"; the other variants
\* have only the catch of main.
AnalyzeCatch ==
    IF variant # "current" THEN MainCatch(FALSE)
    ELSE IF isCommentTrigger
    THEN /\ failed' = TRUE
         /\ hadCriticalErrors' = TRUE
         /\ pc' = "reportError"
         /\ UNCHANGED <<exited, success>>
    ELSE End(TRUE, exited, success, TRUE)

(***************************************************************************)
(* main, up to the analysis.                                               *)
(***************************************************************************)
\* A main without the two checks.
MissingCredentialAccepted(provider, openaiKey, deepseekKey) == FALSE
\* A main that also turns away a provider it does not know.
UnsupportedProviderRejected(provider, openaiKey, deepseekKey) ==
    \/ provider = "openai" /\ ~openaiKey
    \/ provider = "deepseek" /\ ~deepseekKey
    \/ provider \notin {"openai", "deepseek"}

\* The two checks at the top of main.
MissingCredential(provider, openaiKey, deepseekKey) ==
    \/ provider = "openai" /\ ~openaiKey
    \/ provider = "deepseek" /\ ~deepseekKey

Validate ==
    /\ pc = "start"
    /\ IF MissingCredential(API_PROVIDER, OPENAI_API_KEY, DEEPSEEK_API_KEY)
       THEN End(TRUE, exited, success, hadCriticalErrors)
       ELSE /\ pc' = "getPRDetails"
            /\ UNCHANGED <<failed, exited, success, hadCriticalErrors>>
    /\ UNCHANGED <<variant, xvars, cvars, workTree, config, filteredDiff, k,
                   chunkCalls, aiResult, comments, visited, allFailed,
                   analysisThrew, isCommentTrigger, githubRequests,
                   providerRequests, inFlight,
                   noticePosted>>

GetPRDetails ==
    /\ pc = "getPRDetails"
    /\ githubRequests' = githubRequests + 1
    /\ \E trigger \in (IF variant = "current" THEN BOOLEAN ELSE {FALSE}),
          outcome \in GitHubOutcomes :
          /\ isCommentTrigger' = trigger
          /\ IF outcome = "ok"
             THEN /\ pc' = "getDiff"
                  /\ UNCHANGED <<failed, exited, success, hadCriticalErrors>>
             ELSE MainCatch(hadCriticalErrors)
    /\ UNCHANGED <<variant, xvars, cvars, workTree, config, filteredDiff, k,
                   chunkCalls, aiResult, comments, visited, allFailed,
                   analysisThrew, providerRequests, inFlight,
                   noticePosted>>

\* The command of a review comment is invalid: main answers with the valid
\* formats and returns.
InvalidCommand ==
    /\ pc = "getDiff"
    /\ variant = "current"
    /\ isCommentTrigger
    /\ githubRequests' = githubRequests + 1
    /\ \E outcome \in GitHubOutcomes :
          /\ noticePosted' = (outcome = "ok")
          /\ IF outcome = "ok" THEN Return ELSE MainCatch(hadCriticalErrors)
    /\ UNCHANGED <<variant, xvars, cvars, workTree, config, filteredDiff, k,
                   chunkCalls, aiResult, comments, visited, allFailed,
                   analysisThrew, isCommentTrigger, providerRequests, inFlight>>

UnsupportedEvent ==
    /\ pc = "getDiff"
    /\ ~isCommentTrigger
    /\ Return
    /\ UNCHANGED <<variant, xvars, cvars, workTree, config, filteredDiff, k,
                   chunkCalls, aiResult, comments, visited, allFailed,
                   analysisThrew, isCommentTrigger, githubRequests,
                   providerRequests, inFlight,
                   noticePosted>>

\* The request for the diff (pulls.get, compareCommits or getCommit) and
\* what main does with the answer up to the call of analyzeCode.
GetDiff ==
    /\ pc = "getDiff"
    /\ \E outcome \in GitHubOutcomes \cup {"empty"},
          parsedDiff \in DiffPool, excluded \in Excludes :
          LET kept == FilterDiff(parsedDiff, excluded)
          IN IF outcome \in {"denied", "error"}
             THEN /\ githubRequests' =
                        githubRequests + 1
                        + (IF outcome = "denied" /\ isCommentTrigger
                           THEN 1 ELSE 0)
                  /\ noticePosted' \in
                        (IF outcome = "denied" /\ isCommentTrigger
                         THEN BOOLEAN ELSE {FALSE})
                  /\ MainCatch(hadCriticalErrors)
                  /\ UNCHANGED filteredDiff
             ELSE /\ githubRequests' =
                        githubRequests + 1
                        + (IF /\ variant = "current"
                              /\ outcome = "ok"
                              /\ parsedDiff # <<>>
                              /\ kept = <<>>
                              /\ isCommentTrigger
                           THEN 1 ELSE 0)
                  /\ IF outcome = "empty"
                     THEN /\ IF variant = "current"
                             THEN MainCatch(hadCriticalErrors) ELSE Return
                          /\ UNCHANGED <<filteredDiff, noticePosted>>
                     ELSE IF variant = "current" /\ parsedDiff = <<>>
                     THEN /\ MainCatch(hadCriticalErrors)
                          /\ UNCHANGED <<filteredDiff, noticePosted>>
                     ELSE IF variant = "current" /\ kept = <<>>
                     THEN /\ \E notice \in GitHubOutcomes :
                                /\ noticePosted' =
                                       (isCommentTrigger /\ notice = "ok")
                                /\ IF isCommentTrigger /\ notice # "ok"
                                   THEN MainCatch(hadCriticalErrors)
                                   ELSE Return
                          /\ UNCHANGED filteredDiff
                     ELSE /\ filteredDiff' = kept
                          /\ pc' = "analyze"
                          /\ UNCHANGED <<failed, exited, success,
                                         hadCriticalErrors, noticePosted>>
    /\ UNCHANGED <<variant, xvars, cvars, workTree, config, k, chunkCalls,
                   aiResult, comments, visited, allFailed, analysisThrew,
                   isCommentTrigger, providerRequests, inFlight>>

(***************************************************************************)
(* analyzeCode.  A step runs the loop from the call of getAIResponse for   *)
(* chunk k until the next request to a provider is pending or the chunk    *)
(* is finished; Finish is the rest of the loop body once getAIResponse     *)
(* has returned or thrown.                                                 *)
(***************************************************************************)
NewComments(aiResponse) ==
    LET ref == Work[k]
        file == filteredDiff[ref.file]
    IN IF aiResponse.kind = "return" /\ Truthy(aiResponse.val)
       THEN createComment(variant, file, file.chunks[ref.chunk],
                          aiResponse.val, FileStateOf(workTree, file.to))
       ELSE Ret(<<>>)

\* comments.push(...newComments) against putting them in front.
Unshift(list, newComments) == newComments \o list
Push(list, newComments) == list \o newComments

Finish(out) ==
    /\ chunkCalls' = out.calls
    /\ aiResult' = out.final
    /\ visited' = visited + 1
    /\ allFailed' = (allFailed /\ Failed(out.final))
    /\ \E newComments \in {NewComments(out.final)} :
          IF out.final = Thrown \/ newComments = Thrown
          THEN /\ analysisThrew' = TRUE
               /\ AnalyzeCatch
               /\ UNCHANGED <<comments, k>>
          ELSE /\ comments' = Push(comments, newComments.val)
               /\ k' = k + 1
               /\ pc' = "analyze"
               /\ UNCHANGED <<analysisThrew, failed, exited, success,
                              hadCriticalErrors>>

Proceed(out, sentBefore, answered) ==
    /\ providerRequests' =
           providerRequests + SentCount(out.calls) - sentBefore
    /\ inFlight' = inFlight + SentCount(out.calls) - sentBefore - answered
    /\ IF out.final = NotRun
       THEN /\ chunkCalls' = out.calls
            /\ pc' = "await"
            /\ UNCHANGED <<aiResult, visited, allFailed, analysisThrew,
                           comments, k, failed, exited, success,
                           hadCriticalErrors>>
       ELSE Finish(out)

ChunkPrompt ==
    LET ref == Work[k]
        file == filteredDiff[ref.file]
    IN createPrompt(file, file.chunks[ref.chunk])

StartChunk ==
    /\ pc = "analyze"
    /\ k <= Len(Work)
    /\ \E out \in {getAIResponse(ChunkPrompt)} : Proceed(out, 0, 0)
    /\ UNCHANGED <<variant, xvars, cvars, workTree, config, filteredDiff,
                   isCommentTrigger, githubRequests,
                   noticePosted>>

\* The pending call of the chunk returns result.
Answered(result) ==
    Step([chunkCalls EXCEPT ![Len(chunkCalls)].result = result])

DeepseekResponds ==
    /\ pc = "await"
    /\ chunkCalls[Len(chunkCalls)].fn = "getDeepseekResponse"
    /\ \E resp \in ProviderResponses :
       \E result \in {getDeepseekResponse(variant, resp)} :
       \E out \in {Answered(result)} :
          Proceed(out, SentCount(chunkCalls), 1)
    /\ UNCHANGED <<variant, xvars, cvars, workTree, config, filteredDiff,
                   isCommentTrigger, githubRequests,
                   noticePosted>>

OpenAIResponds ==
    /\ pc = "await"
    /\ chunkCalls[Len(chunkCalls)].fn = "getOpenAIResponse"
    /\ \E resp \in ProviderResponses :
       \E result \in {getOpenAIResponse(variant, resp)} :
       \E out \in {Answered(result)} :
          Proceed(out, SentCount(chunkCalls), 1)
    /\ UNCHANGED <<variant, xvars, cvars, workTree, config, filteredDiff,
                   isCommentTrigger, githubRequests,
                   noticePosted>>

(***************************************************************************)
(* main after analyzeCode has returned.                                    *)
(***************************************************************************)
AnalyzeReturns ==
    /\ pc = "analyze"
    /\ k > Len(Work)
    /\ IF comments # <<>>
       THEN /\ pc' = "post"
            /\ UNCHANGED <<failed, exited, success, hadCriticalErrors>>
       ELSE IF variant = "current" /\ isCommentTrigger
       THEN /\ pc' = "notify"
            /\ UNCHANGED <<failed, exited, success, hadCriticalErrors>>
       ELSE Completed(hadCriticalErrors)
    /\ UNCHANGED <<variant, xvars, cvars, workTree, config, filteredDiff, k,
                   chunkCalls, aiResult, comments, visited, allFailed,
                   analysisThrew, isCommentTrigger, githubRequests,
                   providerRequests, inFlight,
                   noticePosted>>

\* The catch around createReviewComment and the completion notice in
\* "current": a permission error is swallowed, any other is thrown again.
ReviewCatch(outcome) ==
    IF outcome = "denied"
    THEN End(failed, exited, FALSE, TRUE)
    ELSE AnalyzeCatch

\* createReviewComment: the request that creates the review.
PostReview ==
    /\ pc = "post"
    /\ githubRequests' = githubRequests + 1
    /\ \E outcome \in GitHubOutcomes :
          IF outcome = "ok"
          THEN IF variant = "current" /\ isCommentTrigger
               THEN /\ pc' = "notify"
                    /\ UNCHANGED <<failed, exited, success, hadCriticalErrors>>
               ELSE Completed(hadCriticalErrors)
          ELSE IF variant # "current" THEN MainCatch(hadCriticalErrors)
          ELSE IF outcome = "denied"
          THEN /\ pc' = "postFallback"
               /\ UNCHANGED <<failed, exited, success, hadCriticalErrors>>
          ELSE ReviewCatch(outcome)
    /\ UNCHANGED <<variant, xvars, cvars, workTree, config, filteredDiff, k,
                   chunkCalls, aiResult, comments, visited, allFailed,
                   analysisThrew, isCommentTrigger, providerRequests, inFlight,
                   noticePosted>>

\* createReviewComment after a permission error: the comments are posted
\* as one ordinary comment.
PostFallback ==
    /\ pc = "postFallback"
    /\ githubRequests' = githubRequests + 1
    /\ \E outcome \in GitHubOutcomes :
          IF outcome = "ok"
          THEN IF isCommentTrigger
               THEN /\ pc' = "notify"
                    /\ UNCHANGED <<failed, exited, success, hadCriticalErrors>>
               ELSE Completed(hadCriticalErrors)
          ELSE ReviewCatch(outcome)
    /\ UNCHANGED <<variant, xvars, cvars, workTree, config, filteredDiff, k,
                   chunkCalls, aiResult, comments, visited, allFailed,
                   analysisThrew, isCommentTrigger, providerRequests, inFlight,
                   noticePosted>>

\* The completion notice of a run started by a comment.
NotifyCompletion ==
    /\ pc = "notify"
    /\ githubRequests' = githubRequests + 1
    /\ \E outcome \in GitHubOutcomes :
          /\ noticePosted' = (noticePosted \/ outcome = "ok")
          /\ IF outcome = "ok" THEN Completed(hadCriticalErrors)
             ELSE IF comments # <<>> THEN ReviewCatch(outcome)
             ELSE AnalyzeCatch
    /\ UNCHANGED <<variant, xvars, cvars, workTree, config, filteredDiff, k,
                   chunkCalls, aiResult, comments, visited, allFailed,
                   analysisThrew, isCommentTrigger, providerRequests, inFlight>>

\* The failure notice of a run started by a comment.
ReportError ==
    /\ pc = "reportError"
    /\ githubRequests' = githubRequests + 1
    /\ \E outcome \in GitHubOutcomes :
          /\ noticePosted' = (noticePosted \/ outcome = "ok")
          /\ IF outcome = "ok" THEN Return ELSE MainCatch(hadCriticalErrors)
    /\ UNCHANGED <<variant, xvars, cvars, workTree, config, filteredDiff, k,
                   chunkCalls, aiResult, comments, visited, allFailed,
                   analysisThrew, isCommentTrigger, providerRequests, inFlight>>

(***************************************************************************)
(* The specifications.                                                     *)
(***************************************************************************)
IdlePipeline ==
    /\ API_PROVIDER = "openai"
    /\ OPENAI_API_KEY = TRUE
    /\ DEEPSEEK_API_KEY = FALSE
    /\ filteredDiff = <<>>
    /\ pc = "idle"
    /\ k = 1
    /\ chunkCalls = <<>>
    /\ aiResult = NotRun
    /\ comments = <<>>
    /\ visited = 0
    /\ allFailed = TRUE
    /\ analysisThrew = FALSE
    /\ isCommentTrigger = FALSE
    /\ githubRequests = 0
    /\ providerRequests = 0
    /\ failed = FALSE
    /\ exited = FALSE
    /\ success = FALSE
    /\ hadCriticalErrors = FALSE
    /\ inFlight = 0
    /\ noticePosted = FALSE

InitExtract ==
    /\ variant \in Variants
    /\ xFn \in ProviderFns
    /\ xWrap \in Wrappers \cup {"special"}
    /\ xPayload \in IF xWrap = "special" THEN Specials ELSE Payloads
    /\ xContent = Wrap(xWrap, xPayload)
    /\ xpc = "ready"
    /\ xResult = NotRun
    /\ workTree = [p \in Paths |-> FileMissing]
    /\ IdleComment
    /\ IdlePipeline

InitComment ==
    /\ variant \in CommentVariants
    /\ IdleExtract
    /\ workTree \in {[p \in Paths |-> fs] : fs \in FileStates}
    /\ cChunk \in ChunkPool
    /\ cFile \in {File(to, <<cChunk>>) : to \in {"a.md", NoTo}}
    /\ cItems \in ResponseValues
    /\ cpc = "ready"
    /\ cOut = NotRun
    /\ IdlePipeline

Init ==
    /\ variant \in Variants
    /\ IdleExtract
    /\ IdleComment
    /\ workTree \in {[p \in Paths |-> fs] : fs \in {FileMissing, FileIndented}}
    /\ API_PROVIDER \in Providers
    /\ OPENAI_API_KEY \in BOOLEAN
    /\ DEEPSEEK_API_KEY \in BOOLEAN
    /\ filteredDiff = <<>>
    /\ pc = "start"
    /\ k = 1
    /\ chunkCalls = <<>>
    /\ aiResult = NotRun
    /\ comments = <<>>
    /\ visited = 0
    /\ allFailed = TRUE
    /\ analysisThrew = FALSE
    /\ isCommentTrigger = FALSE
    /\ githubRequests = 0
    /\ providerRequests = 0
    /\ failed = FALSE
    /\ exited = FALSE
    /\ success = FALSE
    /\ hadCriticalErrors = FALSE
    /\ inFlight = 0
    /\ noticePosted = FALSE

Next ==
    \/ Validate
    \/ GetPRDetails
    \/ InvalidCommand
    \/ UnsupportedEvent
    \/ GetDiff
    \/ StartChunk
    \/ DeepseekResponds
    \/ OpenAIResponds
    \/ AnalyzeReturns
    \/ PostReview
    \/ PostFallback
    \/ NotifyCompletion
    \/ ReportError

vars == <<variant, xvars, cvars, workTree, pvars>>

SpecExtract == InitExtract /\ [][NextExtract]_vars
SpecComment == InitComment /\ [][NextComment]_vars
Spec == Init /\ [][Next]_vars

\* The steps of the program itself.  The runtime runs each of them once it
\* is enabled; the answer of a provider is a step of the network, and no
\* statement of the program makes one arrive.
ProgramStep ==
    \/ Validate
    \/ GetPRDetails
    \/ InvalidCommand
    \/ UnsupportedEvent
    \/ GetDiff
    \/ StartChunk
    \/ AnalyzeReturns
    \/ PostReview
    \/ PostFallback
    \/ NotifyCompletion
    \/ ReportError

SpecLive == Init /\ [][Next]_vars /\ WF_vars(ProgramStep)

(***************************************************************************)
(* Claims about the extractors (specification SpecExtract).                *)
(***************************************************************************)
HasKey(v, key) == v.k = "object" /\ \E i \in 1..Len(v.o) : v.o[i].key = key

Mentions(t, atom) == \E i \in 1..Len(t) : t[i] = atom

\* The reviews array a valid payload carries.
ReviewsOf(payload) == Get(JSONparse(payload).val, REVIEWS)

\* C5: a response text in which no extraction tier can find reviews (here:
\* a non-blank text that does not mention reviews at all) makes
\* getDeepseekResponse return the empty array, never null.
C5_NoReviewsGivesEmptyArray ==
    (/\ xpc = "done"
     /\ xFn = "getDeepseekResponse"
     /\ variant \in {"current", "heuristic"}
     /\ Trim(xContent) # <<>>
     /\ ~Mentions(xContent, "reviews"))
        => xResult = Ret(EmptyArray)

\* C6: a response text that parses as a JSON object without a reviews key
\* makes the extractors of the current variant return the empty array.
C6_ObjectWithoutReviewsGivesEmptyArray ==
    (/\ xpc = "done"
     /\ variant = "current"
     /\ JSONparse(xContent).ok
     /\ JSONparse(xContent).val.k = "object"
     /\ ~HasKey(JSONparse(xContent).val, REVIEWS))
        => xResult = Ret(EmptyArray)

\* The extractors that have a fenced-block tier.
HasFenceTier == variant = "current" \/ xFn = "getDeepseekResponse"

\* C7: extracting from a valid payload wrapped in a fenced code block (with
\* or without the json tag) returns what extracting from the bare payload
\* returns.
C7_FencedEqualsBare ==
    (/\ xpc = "done"
     /\ HasFenceTier
     /\ xWrap \in {"fence", "fencejson"})
        => xResult = CallProviderFn(variant, xFn, HttpOk(xPayload))

\* The extractors that search the text for a brace-delimited object.
HasBraceTier ==
    \/ variant = "heuristic" /\ xFn = "getDeepseekResponse"
    \/ variant = "current" /\ xFn = "getOpenAIResponse"

\* C8: a valid payload embedded in prose is found, and its reviews array
\* returned, whatever the elements of the array are.
C8_EmbeddedPayloadFound ==
    (/\ xpc = "done"
     /\ HasBraceTier
     /\ xWrap = "prose")
        => xResult = Ret(ReviewsOf(xPayload))

(***************************************************************************)
(* Claims about createComment (specification SpecComment).                 *)
(***************************************************************************)
\* The line is the number of some change of the chunk: ln of an added or
\* deleted line, ln2 or ln1 of a context line.
Resolves(chunk, line) ==
    /\ "n" \in DOMAIN line
    /\ \E i \in 1..Len(chunk.changes) :
          LET change == chunk.changes[i]
          IN IF change.type = "normal"
             THEN change.ln2 = line.n \/ change.ln1 = line.n
             ELSE change.ln = line.n

\* C1: createComment emits a comment for an item only if the item's
\* lineNumber is the line number of some change of the chunk; an item with
\* a hallucinated or non-numeric line produces no comment.
C1_CommentsOnlyOnResolvedLines ==
    (cpc = "done" /\ cOut.kind = "return")
        => \A i \in 1..Len(cOut.val) : Resolves(cChunk, cOut.val[i].line)

\* The item with the empty string in place of a missing field.
WithDefault(item, key) ==
    IF HasKey(item, key) THEN item
    ELSE Obj(Append(item.o, [key |-> key, val |-> Str(<<>>)]))

Defaulted(items) ==
    Arr([i \in 1..Len(items.a) |->
            WithDefault(WithDefault(items.a[i], REVIEWCOMMENT), SUGGESTION)])

\* C9: for every element of a reviews array, a missing reviewComment or
\* suggestion is treated as empty text: createComment raises no error and
\* the result is the one for the items with the empty string in the
\* missing fields.
C9_MissingFieldsAreEmptyText ==
    (/\ cpc = "done"
     /\ variant \in {"current", "legacy"}
     /\ IsArray(cItems)
     /\ \A i \in 1..Len(cItems.a) : cItems.a[i].k = "object")
        => /\ cOut.kind = "return"
           /\ cOut = createComment(variant, cFile, cChunk, Defaulted(cItems),
                                   FileStateOf(workTree, cFile.to))

(***************************************************************************)
(* Claims about the run (specification Spec).                              *)
(***************************************************************************)
\* getAIResponse has returned for the chunk whose calls chunkCalls holds.
ChunkFinished == aiResult # NotRun /\ pc # "await" /\ chunkCalls # <<>>

\* C2: with deepseek as primary and an OpenAI key configured, a primary
\* call that throws or returns null is followed by exactly one request to
\* OpenAI with the same prompt, and the result of that call is the result
\* of getAIResponse.
C2_FailedPrimaryIsRetriedOnOpenAI ==
    (/\ ChunkFinished
     /\ API_PROVIDER = "deepseek"
     /\ OPENAI_API_KEY
     /\ Failed(chunkCalls[1].result))
        => /\ Len(chunkCalls) = 2
           /\ chunkCalls[2].fn = "getOpenAIResponse"
           /\ chunkCalls[2].prompt = chunkCalls[1].prompt
           /\ chunkCalls[2].sent
           /\ aiResult = chunkCalls[2].result

C4_MissingCredentialStopsTheRun ==
    (\/ API_PROVIDER = "openai" /\ ~OPENAI_API_KEY
     \/ API_PROVIDER = "deepseek" /\ ~DEEPSEEK_API_KEY)
        => /\ githubRequests = 0
           /\ providerRequests = 0
           /\ visited = 0
           /\ pc \in {"start", "done"}
           /\ pc = "done" => failed

C4_Witness ==
    /\ pc = "done"
    /\ failed
    /\ API_PROVIDER = "deepseek"
    /\ ~DEEPSEEK_API_KEY
    /\ OPENAI_API_KEY
    /\ githubRequests = 0

\* C10: when getAIResponse has failed for every chunk so far (the primary
\* threw or returned null and so did the fallback, if any), the comment
\* list is empty and no exception has left analyzeCode.
C10_AllFailedGivesNoComments ==
    (allFailed /\ visited > 0) => comments = <<>> /\ ~analysisThrew

C10_Witness ==
    /\ pc = "done"
    /\ allFailed
    /\ visited >= 2
    /\ API_PROVIDER = "deepseek"
    /\ OPENAI_API_KEY
    /\ Len(chunkCalls) = 2
    /\ chunkCalls[1].result = Thrown
    /\ chunkCalls[2].result = Ret(Null)
    /\ comments = <<>>
    /\ ~analysisThrew

\* The number of chunks in the files of the diff that have a target path
\* other than the one of a deleted file.
RECURSIVE ReviewableChunks(_)
ReviewableChunks(diff) ==
    IF diff = <<>> THEN 0
    ELSE (IF Head(diff).to \in {DevNull, NoTo} THEN 0
          ELSE Len(Head(diff).chunks))
         + ReviewableChunks(Tail(diff))

\* C11: whatever a provider answers for a chunk, no exception leaves
\* analyzeCode, and when analyzeCode has returned, getAIResponse was called
\* for every chunk of every file that is not deleted.
C11_EveryChunkIsAnalyzed ==
    /\ ~analysisThrew
    /\ pc \in {"post", "postFallback", "notify"}
          => visited >= ReviewableChunks(filteredDiff)

(***************************************************************************)
(* More claims about createComment (specification SpecComment).            *)
(***************************************************************************)
\* The items are objects with a text as reviewComment and a text or nothing
\* as suggestion, and the file has a path: one comment per item is due.
WellFormedItems ==
    /\ cFile.to # NoTo
    /\ IsArray(cItems)
    /\ \A i \in 1..Len(cItems.a) :
          /\ cItems.a[i].k = "object"
          /\ Get(cItems.a[i], REVIEWCOMMENT).k = "string"
          /\ Get(cItems.a[i], SUGGESTION).k \in {"string", "undefined"}

HasExplicitSuggestion(item) ==
    Get(item, SUGGESTION).k = "string" /\ Get(item, SUGGESTION).s # <<>>

\* What synthesis derives for the item from its comment and the line of the
\* chunk its lineNumber resolves to.
Synthesized(chunk, item) ==
    LET lineContent == LineContent(chunk, ToNumber(Get(item, LINENUMBER)))
    IN IF Trim(lineContent) = <<>> THEN NoSuggestion
       ELSE extractSuggestion(Get(item, REVIEWCOMMENT).s, lineContent)

\* C12: synthesis is applied to an item if and only if its suggestion is
\* absent or empty: the comment of an item with an explicit suggestion
\* carries that suggestion and not the synthesized one, and the comment of
\* an item without one, whose comment matches its line, carries the
\* synthesized suggestion.
C12_SynthesisOnlyFillsIn ==
    (/\ cpc = "done"
     /\ variant \in {"current", "heuristic"}
     /\ WellFormedItems)
        => /\ cOut.kind = "return"
           /\ Len(cOut.val) = Len(cItems.a)
           /\ \A i \in 1..Len(cItems.a) :
                 LET item == cItems.a[i]
                     body == cOut.val[i].body.s
                     synth == Synthesized(cChunk, item)
                 IN IF HasExplicitSuggestion(item)
                    THEN /\ Includes(body, Get(item, SUGGESTION).s)
                         /\ synth.found => ~Includes(body, Trim(synth.text))
                    ELSE synth.found => Includes(body, Trim(synth.text))

HasSuggestionBlock(body) == Includes(body, <<BT, BT, BT, "suggestion", NL>>)

\* C13: the body of an emitted comment contains a fenced suggestion block
\* if and only if a non-empty suggestion text exists for its item, given
\* with the item or synthesized from its comment; otherwise the body is the
\* prose of the comment alone.
C13_BlockIffSuggestionText ==
    (/\ cpc = "done"
     /\ variant \in {"current", "heuristic"}
     /\ WellFormedItems
     /\ cOut.kind = "return"
     /\ Len(cOut.val) = Len(cItems.a))
        => \A i \in 1..Len(cItems.a) :
              LET item == cItems.a[i]
                  body == cOut.val[i].body.s
                  synth == Synthesized(cChunk, item)
              IN IF HasExplicitSuggestion(item)
                    \/ (synth.found /\ Trim(synth.text) # <<>>)
                 THEN HasSuggestionBlock(body)
                 ELSE body = Get(item, REVIEWCOMMENT).s

\* Length of the run of backticks that ends at position i of t.
RECURSIVE RunEndingAt(_, _)
RunEndingAt(t, i) ==
    IF i = 0 \/ t[i] # BT THEN 0 ELSE 1 + RunEndingAt(t, i - 1)

LongestRun(t) ==
    IF t = <<>> THEN 0
    ELSE CHOOSE n \in {RunEndingAt(t, i) : i \in 1..Len(t)} :
            \A i \in 1..Len(t) : RunEndingAt(t, i) <= n

Larger(a, b) == IF a >= b THEN a ELSE b

\* C14: the fence of a suggestion block is max(3, L + 1) backticks long,
\* L being the longest run of backticks in the comment or the suggestion
\* text of the item, so that no run inside the block closes it.
C14_FenceOutgrowsBackticks ==
    (/\ cpc = "done"
     /\ WellFormedItems
     /\ cOut.kind = "return"
     /\ Len(cOut.val) = Len(cItems.a))
        => \A i \in 1..Len(cItems.a) :
              LET item == cItems.a[i]
                  body == cOut.val[i].body.s
                  text == IF HasExplicitSuggestion(item)
                          THEN Get(item, SUGGESTION).s
                          ELSE Synthesized(cChunk, item).text
                  L == Larger(LongestRun(Get(item, REVIEWCOMMENT).s),
                              LongestRun(text))
              IN HasSuggestionBlock(body)
                    => RunEndingAt(body, Len(body)) = Larger(3, L + 1)

C16_OneCallAtATime ==
    /\ inFlight \in {0, 1}
    /\ inFlight = 1 =>
          /\ pc = "await"
          /\ visited = k - 1
          /\ k <= Len(Work)

C16_Witness ==
    /\ inFlight = 1
    /\ k = 2
    /\ visited = 1
    /\ comments # <<>>

\* C17: every provider call is bounded by a timeout, so that a chunk whose
\* provider never answers is still finished and analyzeCode terminates:
\* whenever the run waits for a provider, it eventually stops waiting.
C17_AwaitedCallEnds == (pc = "await") ~> (pc # "await")

\* C18: a file whose path is the deleted-file sentinel takes no part in the
\* analysis: no prompt is built and no provider is called for any of its
\* chunks, and the path of a comment is never the sentinel nor missing.
C18_DeletedFilesAreSkipped ==
    /\ \A i \in 1..Len(chunkCalls) : chunkCalls[i].prompt.to # DevNull
    /\ pc = "await" => chunkCalls # <<>>
    /\ \A i \in 1..Len(comments) : comments[i].path \notin {DevNull, NoTo}

C18_Witness ==
    /\ pc = "post"
    /\ \E f \in 1..Len(filteredDiff) : filteredDiff[f].to = DevNull
    /\ comments # <<>>
    /\ visited = ReviewableChunks(filteredDiff)

\* C19: a run started by a comment that passes the validation of the
\* configuration ends only after a result comment was posted on the pull
\* request: the completion notice, or a comment that explains the failure.
C19_CommentRunsAlwaysAnswer ==
    (/\ pc = "done"
     /\ isCommentTrigger
     /\ ~MissingCredential(API_PROVIDER, OPENAI_API_KEY, DEEPSEEK_API_KEY))
        => noticePosted

(***************************************************************************)
(* The line lookup of createComment (specification SpecComment).           *)
(***************************************************************************)
\* The content the stated rule finds for target n: the first change whose
\* ln (added, deleted) or ln2 (context) is n, and when there is none the
\* first context change whose ln1 is n.
StatedLine(chunk, n) ==
    LET changes == chunk.changes
        newSide == {i \in 1..Len(changes) :
                       IF changes[i].type = "normal" THEN changes[i].ln2 = n
                       ELSE changes[i].ln = n}
        oldSide == {i \in 1..Len(changes) :
                       changes[i].type = "normal" /\ changes[i].ln1 = n}
    IN IF newSide # {} THEN changes[Min(newSide)].content
       ELSE IF oldSide # {} THEN changes[Min(oldSide)].content
       ELSE <<>>

\* C20: the lookup matches a change against the target line number by its
\* ln for added and deleted changes, by its new-side number ln2 for context
\* changes, and by the old-side number ln1 of a context change when no
\* change of the chunk matches on the new side.
C20_LookupFallsBackToOldSide ==
    (/\ cpc = "done"
     /\ variant = "heuristic"
     /\ WellFormedItems
     /\ cOut.kind = "return")
        => \A i \in 1..Len(cItems.a) :
              LET target == ToNumber(Get(cItems.a[i], LINENUMBER))
              IN "n" \in DOMAIN target =>
                    LineContent(cChunk, target) = StatedLine(cChunk, target.n)

\* The content of the first change whose ln (added, deleted) or ln2
\* (context) is n; the old-side number of a context change plays no part.
NewSideLine(chunk, n) ==
    LET changes == chunk.changes
        newSide == {i \in 1..Len(changes) :
                       IF changes[i].type = "normal" THEN changes[i].ln2 = n
                       ELSE changes[i].ln = n}
    IN IF newSide # {} THEN changes[Min(newSide)].content ELSE <<>>

\* C20 (as the code has it): the lookup matches added and deleted changes
\* by ln and context changes by ln2 only; a target that is only the
\* old-side number of a context change finds no line, and the comment of
\* its item gets no suggestion block.
C20_LookupUsesNewSideOnly ==
    (/\ cpc = "done"
     /\ variant = "heuristic"
     /\ WellFormedItems
     /\ cOut.kind = "return"
     /\ Len(cOut.val) = Len(cItems.a))
        => \A i \in 1..Len(cItems.a) :
              LET target == ToNumber(Get(cItems.a[i], LINENUMBER))
                  content == NewSideLine(cChunk, target.n)
                  synth == IF Trim(content) = <<>> THEN NoSuggestion
                           ELSE extractSuggestion(
                                    Get(cItems.a[i], REVIEWCOMMENT).s, content)
              IN "n" \in DOMAIN target =>
                    HasSuggestionBlock(cOut.val[i].body.s) = synth.found

C20_Witness ==
    /\ cpc = "done"
    /\ variant = "heuristic"
    /\ cChunk = ChunkB
    /\ cItems = Arr(<<ItemOldSide>>)
    /\ cOut.kind = "return"
    /\ Len(cOut.val) = 1
    /\ cOut.val[1].body = Get(ItemOldSide, REVIEWCOMMENT)

(***************************************************************************)
(* Claims about the synthesis of suggestions (specification SpecComment).  *)
(***************************************************************************)
ShouldBe == <<SP, "should", SP, "be", SP>>

\* The comment reads "A should be B", without quotes.
IsShouldBeForm(comment) ==
    /\ IndexOf(comment, ShouldBe) > 1
    /\ IndexOf(comment, ShouldBe) + Len(ShouldBe) <= Len(comment)
    /\ \A i \in 1..Len(comment) : ~IsQuote(comment[i])
FormA(comment) == SubSeq(comment, 1, IndexOf(comment, ShouldBe) - 1)
FormB(comment) ==
    SubSeq(comment, IndexOf(comment, ShouldBe) + Len(ShouldBe), Len(comment))

Synthesizes == variant \in {"heuristic", "structural"}

SynthesisDone ==
    /\ cpc = "done"
    /\ Synthesizes
    /\ WellFormedItems
    /\ cOut.kind = "return"
    /\ Len(cOut.val) = Len(cItems.a)

\* C21: for a comment "A should be B" whose A occurs in the resolved line,
\* the suggestion of the emitted comment is that line with the first
\* occurrence of A replaced by B and everything else as it was.
C21_ShouldBeReplacesInPlace ==
    SynthesisDone =>
        \A i \in 1..Len(cItems.a) :
           LET comment == Get(cItems.a[i], REVIEWCOMMENT).s
               line == LineContent(cChunk,
                                   ToNumber(Get(cItems.a[i], LINENUMBER)))
           IN (/\ IsShouldBeForm(comment)
               /\ Includes(line, FormA(comment)))
                 => cOut.val[i].body.s =
                        Block3(comment,
                               Replace(line, FormA(comment), FormB(comment)))

BlockText(body) ==
    LET open == Fence3 \o <<"suggestion", NL>>
    IN SubSeq(body, IndexOf(body, open) + Len(open), Len(body))

\* C23: a synthesized suggestion placed in a comment body begins with
\* exactly the leading whitespace of the resolved line, whichever strategy
\* produced it.
C23_SuggestionKeepsIndentation ==
    SynthesisDone =>
        \A i \in 1..Len(cItems.a) :
           LET line == LineContent(cChunk,
                                   ToNumber(Get(cItems.a[i], LINENUMBER)))
               body == cOut.val[i].body.s
           IN HasSuggestionBlock(body)
                 => LeadingWs(BlockText(body)) = LeadingWs(line)

CountBlocks(body) ==
    Cardinality({i \in 1..Len(body) :
                    MatchAt(body, i, Fence3 \o <<"suggestion", NL>>)})

\* C24: the strategies are tried in order and the first applicable one
\* wins, so the body of an emitted comment holds at most one suggestion
\* block, whatever the comment and the line are.
C24_AtMostOneBlock ==
    SynthesisDone =>
        \A i \in 1..Len(cItems.a) : CountBlocks(cOut.val[i].body.s) <= 1

(***************************************************************************)
(* Claims about the recovery of indentation (specification SpecComment).   *)
(***************************************************************************)
\* createComment of "current" was called with items that carry a text as
\* suggestion.
RecoveryDone ==
    /\ cpc = "done"
    /\ variant = "current"
    /\ WellFormedItems
    /\ \A i \in 1..Len(cItems.a) :
          Get(cItems.a[i], SUGGESTION).k = "string"

\* The file of the comment gives no line for the number: it does not
\* exist, cannot be read, or the number is no number or out of range.
NoLineFor(lineNum) ==
    LET fs == FileStateOf(workTree, cFile.to)
        n == ToNumber(lineNum)
    IN \/ ~fs.exists
       \/ ~fs.readable
       \/ "nan" \in DOMAIN n
       \/ n.n < 1
       \/ n.n > Len(fs.lines)

\* C25: when the file of the working tree does not exist or cannot be
\* read, or the line number is no number or out of range, createComment
\* raises no error and emits the comment with the suggestion as supplied.
C25_RecoveryIsBestEffort ==
    RecoveryDone =>
        /\ cOut.kind = "return"
        /\ Len(cOut.val) = Len(cItems.a)
        /\ \A i \in 1..Len(cItems.a) :
              NoLineFor(Get(cItems.a[i], LINENUMBER))
                 => cOut.val[i].body.s =
                        SuggestionBody4(Get(cItems.a[i], REVIEWCOMMENT).s,
                                        Get(cItems.a[i], SUGGESTION).s)

C25_Witness ==
    /\ RecoveryDone
    /\ FileStateOf(workTree, cFile.to) = FileUnreadable
    /\ cItems = Arr(<<ItemResolved, ItemNonNumeric>>)
    /\ cOut.kind = "return"

\* The leading whitespace of the line of the file that has the number, the
\* empty text when the file gives no line for it.
IndentOfLine(lineNum) ==
    IF NoLineFor(lineNum) THEN <<>>
    ELSE LeadingWs(FileStateOf(workTree, cFile.to).lines[ToNumber(lineNum).n])

\* C26: the recovery changes a suggestion only when it has no leading
\* whitespace and the line with the reported number has leading whitespace
\* W, and the emitted suggestion is then W followed by the suggestion; a
\* suggestion that starts with whitespace is emitted unchanged whatever the
\* file holds, and so is any suggestion when the line has no indentation.
C26_RecoveryPrependsIndentation ==
    RecoveryDone =>
        /\ cOut.kind = "return"
        /\ Len(cOut.val) = Len(cItems.a)
        /\ \A i \in 1..Len(cItems.a) :
              LET suggestion == Get(cItems.a[i], SUGGESTION).s
                  W == IndentOfLine(Get(cItems.a[i], LINENUMBER))
              IN cOut.val[i].body.s =
                    SuggestionBody4(
                        Get(cItems.a[i], REVIEWCOMMENT).s,
                        IF LeadingWs(suggestion) = <<>>
                        THEN W \o suggestion ELSE suggestion)

C26_Witness ==
    /\ RecoveryDone
    /\ FileStateOf(workTree, cFile.to) = FileIndented
    /\ cItems = Arr(<<ItemResolved, ItemHallucinated>>)
    /\ cOut.kind = "return"
    /\ cOut.val[1].body.s =
          SuggestionBody4(<<"fix", SP, "typo">>, <<SP, SP, "new", SP, "line">>)
    /\ cOut.val[2].body.s =
          SuggestionBody4(<<"unclear">>, <<SP, SP, "clear">>)

C28_CriticalErrorsFailTheRun ==
    (/\ pc = "done"
     /\ variant = "current"
     /\ filteredDiff # <<>>)
        => /\ hadCriticalErrors => failed
           /\ success \/ failed

\* C29: when several changes of the chunk have the item's line number (the
\* deleted line with old number N before the added line with new number N),
\* the comment is the one the first of them alone would give: the changes
\* after the first match are never examined.
Matching(chunk, n) ==
    {i \in 1..Len(chunk.changes) : getChangeLineNumber(chunk.changes[i], n)}

FirstMatchOnly(chunk, n) ==
    LET first == CHOOSE i \in Matching(chunk, n) :
                     \A j \in Matching(chunk, n) : i <= j
    IN Chunk(<<chunk.changes[first]>>)

ResolverRan ==
    /\ cpc = "done"
    /\ variant \in {"heuristic", "structural"}
    /\ cOut.kind = "return"
    /\ cFile.to # NoTo

C29_FirstMatchingChangeWins ==
    ResolverRan =>
        \A i \in 1..Len(cItems.a) :
            LET n == ToNumber(Get(cItems.a[i], LINENUMBER))
            IN Matching(cChunk, n) # {} =>
                   /\ createComment(variant, cFile, FirstMatchOnly(cChunk, n),
                                    Arr(<<cItems.a[i]>>),
                                    FileStateOf(workTree, cFile.to)).kind
                          = "return"
                   /\ cOut.val[i] =
                          createComment(variant, cFile,
                                        FirstMatchOnly(cChunk, n),
                                        Arr(<<cItems.a[i]>>),
                                        FileStateOf(workTree, cFile.to)).val[1]

\* The deleted line 2 of the chunk is resolved in place of the added line 2:
\* the suggestion is made from the text of the deleted line.
C29_Witness ==
    /\ ResolverRan
    /\ variant = "heuristic"
    /\ cChunk = ChunkA
    /\ cItems = Arr(<<ItemDeletedSide>>)
    /\ Cardinality(Matching(cChunk, Num(2))) = 2
    /\ cOut.val[1].body =
           Str(<<"use", SP, DQ, "old", DQ, SP, "as", SP, DQ, "new", DQ,
                 NL, NL>> \o Fence3 \o
               <<"suggestion", NL, "-", SP, SP, "new", SP, "line", NL>>
               \o Fence3)

\* C30: with an API_PROVIDER that is neither "openai" nor "deepseek" the
\* run gets past the checks at the top of main, no request is ever sent to a
\* provider, every chunk ends with null from getAIResponse so the comment
\* list stays empty, and nothing but a failed request to GitHub marks the
\* run failed: a run started by a pull request event that has its diff ends
\* unfailed and reports success.
UnsupportedProvider == API_PROVIDER \notin {"openai", "deepseek"}

C30_UnsupportedProviderReviewsNothing ==
    [][UnsupportedProvider =>
          /\ pc = "start" => pc' = "getPRDetails" /\ ~failed'
          /\ providerRequests' = 0
          /\ chunkCalls' = <<>>
          /\ visited' > visited => aiResult' = Ret(Null)
          /\ comments' = <<>>
          /\ (failed' /\ ~failed) => githubRequests' > githubRequests
          /\ (pc = "analyze" /\ ~isCommentTrigger)
                => (~failed' /\ ~hadCriticalErrors'
                    /\ (pc' = "done" /\ variant = "current" => success'))
      ]_vars

C30_Witness ==
    /\ UnsupportedProvider
    /\ pc = "done"
    /\ variant = "current"
    /\ visited >= 2
    /\ aiResult = Ret(Null)
    /\ providerRequests = 0
    /\ comments = <<>>
    /\ ~failed
    /\ success

====
